---- MODULE Spec2Model ----
(***************************************************************************)
(* Preview transaction manager of the Excel add-in (SheetConnector.ts):    *)
(* applyPreview (stage), acceptPreview (accept), rejectPreview (reject),   *)
(* together with the style helper applyCellStyle and the formatted-plan    *)
(* renderer applyFormattedPlan, over a window of the worksheet.            *)
(***************************************************************************)
EXTENDS Integers, Sequences, FiniteSets, TLC

(***************************************************************************)
(* Bounds of the model.                                                    *)
(***************************************************************************)
\* The observed window of the worksheet is columns 1..MaxCol, rows 1..MaxRow.
MaxCol == 4
MaxRow == 2
\* Longest op list handed to applyPreview.
MaxOps == 2
\* Calls in one behaviour, by weight: an applyPreview or an applyOps weighs
\* two calls, an acceptPreview or a rejectPreview one.
MaxCalls == 4
\* Flushes (context.sync) the host rejects in one behaviour.
MaxFail == 1

Cells == (1..MaxCol) \X (1..MaxRow)

(***************************************************************************)
(* Cell contents.  A cell holds a literal scalar or a formula; the empty   *)
(* cell is the literal "" (range.values reads "" from an empty cell and    *)
(* writing "" empties it).                                                 *)
(***************************************************************************)
Str(s) == [k |-> "str", s |-> s]
Num(n) == [k |-> "num", n |-> n, per |-> 1]
\* n / 1000000, kept exact.
Millions(n) == [k |-> "num", n |-> n, per |-> 1000000]
\* null or undefined: a null in a values matrix leaves the cell as it is.
Null == [k |-> "null"]
\* A formula text "=SUM(<c1><r1>:<c2><r2>)"; columns are letter sequences.
SumText(c1, r1, c2, r2) == [fn |-> "SUM", c1 |-> c1, r1 |-> r1, c2 |-> c2, r2 |-> r2]
\* A formula text "=<c1><r1>".
RefText(c1, r1) == [fn |-> "REF", c1 |-> c1, r1 |-> r1, c2 |-> c1, r2 |-> r1]
NoText == [fn |-> "", c1 |-> <<>>, r1 |-> 0, c2 |-> <<>>, r2 |-> 0]
Formula(f) == [k |-> "formula", f |-> f]
\* The scalar the host computes for formula f (what range.values reads).
Evaluate(f) == [k |-> "val", of |-> f]
EmptyContent == Str("")

\* range.values read of one cell: the computed value, never the formula.
ReadValue(content) ==
    IF content.k = "formula" THEN Evaluate(content.f) ELSE content

(***************************************************************************)
(* Addresses.  An address is the rectangle it names; range.address is the  *)
(* normalised address of op.range, so equal rectangles are equal keys.     *)
(***************************************************************************)
Addr(c1, r1, c2, r2) == [c1 |-> c1, r1 |-> r1, c2 |-> c2, r2 |-> r2]
CellsOf(a) ==
    {c \in Cells : a.c1 <= c[1] /\ c[1] <= a.c2 /\ a.r1 <= c[2] /\ c[2] <= a.r2}
IsSingleCell(a) == a.c1 = a.c2 /\ a.r1 = a.r2

(***************************************************************************)
(* ActionOp (SheetConnector.ts:4-12).  values is the matrix of the op, one *)
(* scalar per cell of its range.                                           *)
(***************************************************************************)
WriteOp(id, a, v) ==
    [id |-> id, range |-> a, type |-> "write", hasValues |-> TRUE,
     values |-> [c \in CellsOf(a) |-> Str(v)], formula |-> NoText]
FormulaOp(id, a, f) ==
    [id |-> id, range |-> a, type |-> "formula", hasValues |-> FALSE,
     values |-> [c \in CellsOf(a) |-> EmptyContent], formula |-> f]

\* The ops the plan service may return in this model.
OpUniverse ==
    { WriteOp("op1", Addr(1, 1, 1, 2), "x"),
      WriteOp("op2", Addr(1, 2, 1, 2), "y"),
      WriteOp("op3", Addr(2, 1, 2, 1), "w"),
      FormulaOp("op4", Addr(3, 1, 3, 1), SumText(<<"A">>, 1, <<"A">>, 2)) }

RECURSIVE SeqsUpTo(_, _)
SeqsUpTo(S, n) ==
    IF n = 0 THEN {<<>>}
    ELSE LET shorter == SeqsUpTo(S, n - 1)
         IN  shorter \cup {Append(s, x) : s \in {t \in shorter : Len(t) = n - 1}, x \in S}
OpLists == SeqsUpTo(OpUniverse, MaxOps)

(***************************************************************************)
(* Cells of the document: content plus the formatting properties that      *)
(* loadDetailedFormat reads.  bold stands for the font flags, color is the *)
(* font color, numberFormat stands for the string-valued properties,       *)
(* border for the edge borders of the cell ("dash" is the draft marker).   *)
(***************************************************************************)
DefaultCell ==
    [content |-> EmptyContent, bold |-> FALSE, color |-> "#000000", fill |-> "#FFFFFF",
     numberFormat |-> "General", wrapText |-> FALSE, border |-> "none"]

\* The user's sheet before any preview: a header and a data cell with their
\* own formatting, a formula cell, a bordered cell, and a note to the right
\* of the table.
UserSheets ==
    { [c \in Cells |->
         IF c = <<1, 1>> THEN
            [DefaultCell EXCEPT !.content = Str("Shareholder"), !.bold = TRUE,
                                !.fill = "#FFFF00", !.wrapText = w]
         ELSE IF c = <<1, 2>> THEN
            [DefaultCell EXCEPT !.content = Str("Alice"), !.numberFormat = "0.0%",
                                !.border = b]
         ELSE IF c = <<2, 1>> THEN
            [DefaultCell EXCEPT !.content = Formula(RefText(<<"A">>, 2)), !.wrapText = TRUE]
         ELSE IF c = <<4, 2>> THEN
            [DefaultCell EXCEPT !.content = Str("note"), !.bold = TRUE]
         ELSE DefaultCell]
      : <<w, b>> \in {<<FALSE, "none">>, <<TRUE, "solid">>} }

(***************************************************************************)
(* CellStyle (SheetConnector.ts:15-32): a record holding only the fields   *)
(* that are present.                                                       *)
(***************************************************************************)
NullStyle == [null |-> TRUE]

\* captureRangeFormatting, one cell: every property is read.
CaptureStyle(cell) ==
    [bold |-> cell.bold, color |-> cell.color, fill |-> cell.fill,
     numberFormat |-> cell.numberFormat, wrapText |-> cell.wrapText,
     borders |-> cell.border]

\* applyCellStyle replacing the cell's format by the style: what is absent
\* in the style falls back to the default.
applyCellStyleReplace(cell, style) ==
    LET has(f) == f \in DOMAIN style
    IN  [DefaultCell EXCEPT
            !.content = cell.content,
            !.border = cell.border,
            !.bold = IF has("bold") THEN style.bold ELSE @,
            !.color = IF has("color") /\ style.color # "" THEN style.color ELSE @,
            !.fill = IF has("fill") /\ style.fill # "" THEN style.fill ELSE @,
            !.numberFormat = IF has("numberFormat") /\ style.numberFormat # ""
                             THEN style.numberFormat ELSE @,
            !.wrapText = has("wrapText") /\ style.wrapText]

\* applyCellStyle: bold is written when defined; the other properties only
\* when truthy; borders are never written.
applyCellStyle(cell, style) ==
    LET has(f) == f \in DOMAIN style
        c0 == IF has("bold") THEN [cell EXCEPT !.bold = style.bold] ELSE cell
        c1 == IF has("color") /\ style.color # ""
              THEN [c0 EXCEPT !.color = style.color] ELSE c0
        c2 == IF has("fill") /\ style.fill # ""
              THEN [c1 EXCEPT !.fill = style.fill] ELSE c1
        c3 == IF has("numberFormat") /\ style.numberFormat # ""
              THEN [c2 EXCEPT !.numberFormat = style.numberFormat] ELSE c2
        c4 == IF has("wrapText") /\ style.wrapText
              THEN [c3 EXCEPT !.wrapText = TRUE] ELSE c3
    IN  c4

\* restoreRangeFormatting: cell by cell, the captured style is applied.
restoreRangeFormatting(sh, a, styles) ==
    [c \in Cells |->
        IF c \in CellsOf(a) THEN applyCellStyle(sh[c], styles[c]) ELSE sh[c]]

\* OriginalCellState of range a on sheet sh.
CaptureState(sh, a) ==
    [values |-> [c \in CellsOf(a) |-> ReadValue(sh[c].content)],
     formatting |-> [c \in CellsOf(a) |-> CaptureStyle(sh[c])]]

\* range.values = matrix, flushed.
WriteValues(sh, a, m) ==
    [c \in Cells |-> IF c \in CellsOf(a) THEN [sh[c] EXCEPT !.content = m[c]] ELSE sh[c]]

\* range.formulas = [[f]]: a 1x1 matrix.
WriteFormula(sh, a, f) ==
    [c \in Cells |->
        IF c \in CellsOf(a) THEN [sh[c] EXCEPT !.content = Formula(f)] ELSE sh[c]]

\* The four edge borders of the range set to dash / all borders set to none.
SetBorder(sh, a, b) ==
    [c \in Cells |-> IF c \in CellsOf(a) THEN [sh[c] EXCEPT !.border = b] ELSE sh[c]]


(***************************************************************************)
(* State.                                                                  *)
(***************************************************************************)
VARIABLES
    sheet,                 \* the document window: cell -> cell record
    originalCellData,      \* SheetConnector.originalCellData: address -> OriginalCellState
    previewAppliedRanges,  \* SheetConnector.previewAppliedRanges
    pc,                    \* the call in flight: "idle", "stage", "accept", "reject"
    phase,                 \* the await the call in flight is suspended at
    idx,                   \* loop index of the call in flight
    ops,                   \* argument of the applyPreview in flight
    plan,                  \* backendResult argument of the acceptPreview in flight
    formatting,            \* formatting argument of the acceptPreview in flight
    lastCall,              \* the last call that started
    result,                \* outcome of the last call: "none", "running", "ok", "threw"
    preSheet,              \* the document when the last applyPreview started
    callSheet,             \* the document when the last call started
    callData,              \* originalCellData when the last call started
    callRanges,            \* previewAppliedRanges when the last call started
    restored,              \* addresses whose restore the last rejectPreview flushed
    prev,                  \* the call before the last one: its name, outcome, arguments
                           \* and the document when it started
    calls, fails,          \* counters for the bounds
    app                    \* the task pane: state of the App component and its calls in flight

vars == <<sheet, originalCellData, previewAppliedRanges, pc, phase, idx, ops, plan,
          formatting, lastCall, result, preSheet, callSheet, callData, callRanges,
          restored, prev, calls, fails, app>>

session == <<originalCellData, previewAppliedRanges>>
args == <<ops, plan, formatting>>
counters == <<calls, fails>>

EmptyMap == [a \in {} |-> 0]
Put(m, key, v) == [a \in DOMAIN m \cup {key} |-> IF a = key THEN v ELSE m[a]]

NoPlan == [none |-> TRUE]
NoFormatting == [none |-> TRUE]

\* The host may reject any flush; MaxFail bounds how often it does.
HostMayReject == fails < MaxFail

\* A call starts: the history of the call is recorded.
CallWeight(name) == IF name \in {"stage", "apply"} THEN 2 ELSE 1
StartCall(name) ==
    /\ pc = "idle"
    /\ calls + CallWeight(name) <= MaxCalls
    /\ calls' = calls + CallWeight(name)
    /\ lastCall' = name
    /\ callSheet' = sheet
    /\ callData' = originalCellData
    /\ callRanges' = previewAppliedRanges
    /\ restored' = <<>>
    /\ prev' = [call |-> lastCall, result |-> result, sheet |-> callSheet,
                plan |-> plan, formatting |-> formatting]
    /\ UNCHANGED app

\* The call in flight throws: control returns to the caller, nothing else changes.
Throw ==
    /\ HostMayReject
    /\ fails' = fails + 1
    /\ pc' = "idle"
    /\ phase' = "none"
    /\ result' = "threw"
    /\ UNCHANGED <<sheet, session, idx, args, lastCall, preSheet, callSheet, callData,
                   callRanges, restored, prev, app, calls>>

Return ==
    /\ pc' = "idle"
    /\ phase' = "none"
    /\ result' = "ok"

(***************************************************************************)
(* applyPreview (SheetConnector.ts:955-1022).                              *)
(***************************************************************************)
\* The session of the previous preview carried over: what applyPreview would
\* start from without lines 962-963.
SessionCarriedOver == <<originalCellData, previewAppliedRanges>>

\* Lines 962-963: the previous preview state is cleared when the call starts.
applyPreviewReset == <<EmptyMap, <<>>>>

\* Lines 985-995, flushed by the sync of line 1002.  A formula op assigns a
\* 1x1 matrix, which the host accepts only for a single-cell range.
OpIsWrite(op) == op.type = "write" /\ op.hasValues
OpIsFormula(op) == op.type = "formula" /\ op.formula # NoText
OpWriteAccepted(op) == OpIsFormula(op) => IsSingleCell(op.range)
ApplyOpWrite(sh, op) ==
    IF OpIsWrite(op) THEN WriteValues(sh, op.range, op.values)
    ELSE IF OpIsFormula(op) THEN WriteFormula(sh, op.range, op.formula)
    ELSE sh

\* The store left as it is: an applyPreview that writes without line 981.
SnapshotSkipped(data, sh, a) == data

\* Lines 981-982: the original state is stored under range.address and the
\* address is pushed, for every op.
RecordSnapshot(data, sh, a) == Put(data, a, CaptureState(sh, a))
RecordRange(ranges, a) == Append(ranges, a)

applyPreviewBegin(opsArg) ==
    /\ StartCall("stage")
    /\ ops' = opsArg
    /\ preSheet' = sheet
    /\ originalCellData' = applyPreviewReset[1]
    /\ previewAppliedRanges' = applyPreviewReset[2]
    /\ idx' = 1
    /\ IF opsArg = <<>>
       THEN Return
       ELSE pc' = "stage" /\ phase' = "capture" /\ result' = "running"
    /\ UNCHANGED <<sheet, plan, formatting, fails>>

\* Lines 972-983: the loads of values and formats are flushed (sync of line
\* 975 and the syncs of captureRangeFormatting), then the snapshot is stored.
applyPreviewCapture ==
    /\ pc = "stage" /\ phase = "capture"
    /\ LET a == ops[idx].range
       IN  /\ originalCellData' = RecordSnapshot(originalCellData, sheet, a)
           /\ previewAppliedRanges' = RecordRange(previewAppliedRanges, a)
    /\ phase' = "write"
    /\ UNCHANGED <<sheet, pc, idx, args, lastCall, result, preSheet, callSheet,
                   callData, callRanges, restored, prev, app, counters>>

\* Line 1002: the sync that carries the op's value or formula write.
applyPreviewWrite ==
    /\ pc = "stage" /\ phase = "write"
    /\ OpWriteAccepted(ops[idx])
    /\ sheet' = ApplyOpWrite(sheet, ops[idx])
    /\ phase' = "marker"
    /\ UNCHANGED <<session, pc, idx, args, lastCall, result, preSheet, callSheet,
                   callData, callRanges, restored, prev, app, counters>>

\* Lines 1003-1010: the dashed border is set and flushed; next op or return.
applyPreviewMarker ==
    /\ pc = "stage" /\ phase = "marker"
    /\ sheet' = SetBorder(sheet, ops[idx].range, "dash")
    /\ idx' = idx + 1
    /\ IF idx = Len(ops)
       THEN Return
       ELSE pc' = pc /\ phase' = "capture" /\ result' = result
    /\ UNCHANGED <<session, args, lastCall, preSheet, callSheet, callData, callRanges,
                   restored, prev, app, counters>>

\* Any of the syncs of applyPreview is rejected: catch of lines 1014-1021.
applyPreviewThrow ==
    /\ pc = "stage"
    /\ Throw


(***************************************************************************)
(* rejectPreview (SheetConnector.ts:1063-1108).                            *)
(***************************************************************************)
\* Lines 1081-1088: values, then the captured formatting, of one range.
RestoreRange(sh, a, state) ==
    restoreRangeFormatting(WriteValues(sh, a, state.values), a, state.formatting)

\* Lines 1096-1097: the state is cleared after the last range was restored.
AfterReject == <<EmptyMap, <<>>>>

\* A rejectPreview that enters Excel.run with nothing recorded: the call
\* without the early return of lines 1065-1068.
rejectPreviewEnters ==
    /\ StartCall("reject")
    /\ Len(previewAppliedRanges) = 0
    /\ pc' = "reject" /\ phase' = "restore" /\ result' = "running"
    /\ idx' = 1
    /\ UNCHANGED <<sheet, session, args, preSheet, fails>>

\* Lines 1065-1068: nothing to reject.
rejectPreviewNoop ==
    /\ StartCall("reject")
    /\ Len(previewAppliedRanges) = 0
    /\ Return
    /\ UNCHANGED <<sheet, session, idx, args, preSheet, fails>>

rejectPreviewBegin ==
    /\ StartCall("reject")
    /\ Len(previewAppliedRanges) # 0
    /\ pc' = "reject" /\ phase' = "restore" /\ result' = "running"
    /\ idx' = 1
    /\ UNCHANGED <<sheet, session, args, preSheet, fails>>

\* Lines 1073-1093, one iteration up to its sync (line 1091); after the last
\* one the state is cleared (lines 1096-1097).
rejectPreviewRestore ==
    /\ pc = "reject" /\ phase = "restore"
    /\ LET a == previewAppliedRanges[idx]
       IN  /\ sheet' = IF a \in DOMAIN originalCellData
                       THEN RestoreRange(sheet, a, originalCellData[a])
                       ELSE sheet
           /\ restored' = Append(restored, a)
    /\ idx' = idx + 1
    /\ IF idx = Len(previewAppliedRanges)
       THEN /\ Return
            /\ originalCellData' = AfterReject[1]
            /\ previewAppliedRanges' = AfterReject[2]
       ELSE /\ pc' = pc /\ phase' = phase /\ result' = result
            /\ UNCHANGED session
    /\ UNCHANGED <<args, lastCall, preSheet, callSheet, callData, callRanges, prev, app,
                   counters>>

\* The sync of a range is rejected: catch of lines 1099-1107.
rejectPreviewThrow ==
    /\ pc = "reject"
    /\ Throw

(***************************************************************************)
(* Address arithmetic of applyFormattedPlan (SheetConnector.ts:518-546).   *)
(* Strings are sequences of one-character strings.                         *)
(***************************************************************************)
Upper ==
    <<"A", "B", "C", "D", "E", "F", "G", "H", "I", "J", "K", "L", "M",
      "N", "O", "P", "Q", "R", "S", "T", "U", "V", "W", "X", "Y", "Z">>
Digits == <<"0", "1", "2", "3", "4", "5", "6", "7", "8", "9">>
IsUpper(ch) == \E n \in 1..26 : Upper[n] = ch
IsDigit(ch) == \E n \in 1..10 : Digits[n] = ch
\* charCodeAt(i) - 64 for an upper-case letter; the digit's value.
LetterCode(ch) == CHOOSE n \in 1..26 : Upper[n] = ch
DigitValue(ch) == (CHOOSE n \in 1..10 : Digits[n] = ch) - 1

RECURSIVE colToNumFrom(_, _, _)
colToNumFrom(colStr, i, num) ==
    IF i > Len(colStr) THEN num
    ELSE colToNumFrom(colStr, i + 1, num * 26 + LetterCode(colStr[i]))
colToNum(colStr) == colToNumFrom(colStr, 1, 0)

\* Plain base 26 with A as the digit 0: lines 529 and 531 without the
\* subtraction of 1.
RECURSIVE numToColPlainFrom(_, _)
numToColPlainFrom(n, str) ==
    IF n > 0
    THEN numToColPlainFrom(n \div 26, <<Upper[(n % 26) + 1]>> \o str)
    ELSE str
numToColPlain(n) == numToColPlainFrom(n, <<>>)

RECURSIVE numToColFrom(_, _)
numToColFrom(n, str) ==
    IF n > 0
    THEN numToColFrom((n - 1) \div 26, <<Upper[((n - 1) % 26) + 1]>> \o str)
    ELSE str
numToCol(n) == numToColFrom(n, <<>>)

RECURSIVE parseIntFrom(_, _, _)
parseIntFrom(ds, i, num) ==
    IF i > Len(ds) THEN num
    ELSE parseIntFrom(ds, i + 1, num * 10 + DigitValue(ds[i]))
parseInt(ds) == parseIntFrom(ds, 1, 0)

\* formatting.address.split('!')[1]: the text between the first and the
\* second '!', or undefined when the address holds no '!'.
Undefined == <<"undefined">>
IndexOfFrom(str, ch, from) ==
    IF \E i \in from..Len(str) : str[i] = ch
    THEN CHOOSE i \in from..Len(str) : str[i] = ch /\ \A j \in from..(i - 1) : str[j] # ch
    ELSE 0
SplitSecond(str) ==
    LET first == IndexOfFrom(str, "!", 1)
        second == IF first = 0 THEN 0 ELSE IndexOfFrom(str, "!", first + 1)
    IN  IF first = 0 THEN Undefined
        ELSE IF second = 0 THEN SubSeq(str, first + 1, Len(str))
        ELSE SubSeq(str, first + 1, second - 1)

\* End of the longest run of characters satisfying Is(_) that starts at i
\* (i - 1 when the run is empty).
RECURSIVE RunEnd(_, _, _)
RunEnd(str, i, digits) ==
    IF i <= Len(str) /\ (IF digits THEN IsDigit(str[i]) ELSE IsUpper(str[i]))
    THEN RunEnd(str, i + 1, digits)
    ELSE i - 1

\* /([A-Z]+)(\d+)(?::([A-Z]+)(\d+))?/ matched at position p (greedy).
MatchAt(str, p) ==
    LET e1 == RunEnd(str, p, FALSE)
        e2 == RunEnd(str, e1 + 1, TRUE)
        colon == e2 + 1 <= Len(str) /\ str[e2 + 1] = ":"
        e3 == RunEnd(str, e2 + 2, FALSE)
        e4 == RunEnd(str, e3 + 1, TRUE)
        tail == colon /\ e3 >= e2 + 2 /\ e4 >= e3 + 1
    IN  [ok |-> e1 >= p /\ e2 >= e1 + 1,
         m1 |-> SubSeq(str, p, e1),
         m2 |-> SubSeq(str, e1 + 1, e2),
         hasEnd |-> tail,
         m3 |-> IF tail THEN SubSeq(str, e2 + 2, e3) ELSE <<>>,
         m4 |-> IF tail THEN SubSeq(str, e3 + 1, e4) ELSE <<>>]

\* String.prototype.match without the g flag: the leftmost match.
RegexMatch(str) ==
    LET hits == {p \in 1..Len(str) : MatchAt(str, p).ok}
    IN  IF hits = {} THEN [ok |-> FALSE]
        ELSE MatchAt(str, CHOOSE p \in hits : \A q \in hits : p <= q)

\* Lines 538-551: the parsed input address and the output anchor, or the
\* failure of the call (TypeError on undefined, or the thrown parse error).
ParseInputAddress(address) ==
    LET inputAddress == SplitSecond(address)
        match == IF inputAddress = Undefined THEN [ok |-> FALSE]
                 ELSE RegexMatch(inputAddress)
    IN  IF ~match.ok THEN [ok |-> FALSE]
        ELSE LET startColStr == match.m1
                 startRow == parseInt(match.m2)
                 endColStr == IF match.hasEnd THEN match.m3 ELSE startColStr
                 endColNum == colToNum(endColStr)
             IN  [ok |-> TRUE,
                  outputStartColNum |-> endColNum + 2,
                  outputStartRow |-> startRow]


(***************************************************************************)
(* applyFormattedPlan (SheetConnector.ts:506-853): the renderer.           *)
(***************************************************************************)
\* JavaScript truthiness of a scalar.
Truthy(v) == (v.k = "str" /\ v.s # "") \/ (v.k = "num" /\ v.n # 0)
OrElse(v, w) == IF Truthy(v) THEN v ELSE w
\* v ? v / 1000000 : null
InMillions(v) == IF Truthy(v) /\ v.k = "num" THEN Millions(v.n) ELSE Null

\* backendResult.slots || {} and calculated_values || {}, then a field of it.
Field(rec, f) == IF f \in DOMAIN rec THEN rec[f] ELSE Null
SlotsOf(p) == IF "slots" \in DOMAIN p THEN p.slots ELSE [none |-> TRUE]
CalcOf(p) == IF "calculated_values" \in DOMAIN p THEN p.calculated_values ELSE [none |-> TRUE]
MapOf(calc, f) == IF f \in DOMAIN calc THEN calc[f] ELSE [none |-> Null]
InvestorsOf(p) ==
    IF "parsed_investors" \in DOMAIN CalcOf(p) THEN CalcOf(p).parsed_investors ELSE <<>>

\* Lines 588-595: styles[i] ?? styles[0] ?? null, i counted from 0.
StyleAt(styles, i) ==
    IF i + 1 \in 1..Len(styles) THEN styles[i + 1]
    ELSE IF Len(styles) >= 1 THEN styles[1]
    ELSE NullStyle
getHeaderStyle(fmt, i) == StyleAt(fmt.headerRowStyle, i)
getDataStyle(fmt, i) == StyleAt(fmt.dataRowStyle, i)
OrStyle(a, b) == IF a # NullStyle THEN a ELSE b

\* numberFormat.includes('%') for the number formats of the model.
PercentFormats == {"0%", "0.0%", "0.00%"}
IncludesPercent(nf) == nf \in PercentFormats

\* Lines 626, 665: getDataStyle(1) || getDataStyle(2) || getDataStyle(0).
amountStyle(fmt) ==
    OrStyle(getDataStyle(fmt, 1), OrStyle(getDataStyle(fmt, 2), getDataStyle(fmt, 0)))

\* Line 648: the first captured data style with a percent format, else amountStyle.
poolStyle(fmt) ==
    LET hits == {i \in 1..Len(fmt.dataRowStyle) :
                    /\ "numberFormat" \in DOMAIN fmt.dataRowStyle[i]
                    /\ IncludesPercent(fmt.dataRowStyle[i].numberFormat)}
    IN  IF hits = {} THEN amountStyle(fmt)
        ELSE fmt.dataRowStyle[CHOOSE i \in hits : \A j \in hits : i <= j]

\* No row is skipped: the investor loop without lines 737-740.
SkipsNone(inv) == FALSE

\* Line 737: the rows of parsed_investors that are skipped.
IsPlaceholderName(name) == name \in {"shareholder", "Shareholder", "SHAREHOLDER"}
SkipInvestor(inv) == inv.name = "" \/ IsPlaceholderName(inv.name)

\* One cell write of the renderer: column offset from the output start
\* column, row, value, style and the default percent format of lines 651,
\* 765, 790, 813, 837 ("" where none is forced).
W(co, row, val, style, force) ==
    [co |-> co, row |-> row, val |-> val, style |-> style, force |-> force]

\* Lines 598-657.
RoundInputsWrites(p, fmt, r) ==
    LET slots == SlotsOf(p)
        h == getHeaderStyle(fmt, 0)
    IN  << W(0, r, Str("Round Inputs"), h, ""),
           W(0, r + 1, Str("Round Type"), h, ""),
           W(1, r + 1, OrElse(Field(slots, "roundType"), Str("")), getDataStyle(fmt, 1), ""),
           W(0, r + 2, Str("Amount ($M)"), h, ""),
           W(1, r + 2, InMillions(Field(slots, "amount")), amountStyle(fmt), ""),
           W(0, r + 3, Str("Pre-Money ($M)"), h, ""),
           W(1, r + 3, InMillions(Field(slots, "preMoney")), amountStyle(fmt), ""),
           W(0, r + 4, Str("Pool Pct (%)"), h, ""),
           W(1, r + 4, OrElse(Field(slots, "poolPct"), Null), poolStyle(fmt), "0%") >>

\* Lines 660-700; r is the row of the block header.
CalculationsWrites(p, fmt, r) ==
    LET calc == CalcOf(p)
        h == getHeaderStyle(fmt, 0)
        v == amountStyle(fmt)
    IN  << W(0, r, Str("Calculations"), h, ""),
           W(0, r + 1, Str("Post-Money ($M)"), h, ""),
           W(1, r + 1, InMillions(Field(calc, "post_money_valuation")), v, ""),
           W(0, r + 2, Str("Price per Share"), h, ""),
           W(1, r + 2, Field(calc, "price_per_share"), v, "") >>

\* Lines 717-731; the fourth header takes the style of the last input column.
CapHeaderWrites(fmt, r) ==
    << W(0, r, Str("Shareholder"), getHeaderStyle(fmt, 0), ""),
       W(1, r, Str("Investment ($)"), getHeaderStyle(fmt, 1), ""),
       W(2, r, Str("Shares"), getHeaderStyle(fmt, 2), ""),
       W(3, r, Str("% Ownership"), getHeaderStyle(fmt, fmt.columnCount - 1), "") >>

\* One table row: lines 748-767, 776-792, 799-815.
CapRowWrites(fmt, r, name, investment, shares, pct, force) ==
    << W(0, r, Str(name), getDataStyle(fmt, 0), ""),
       W(1, r, investment, getDataStyle(fmt, 1), ""),
       W(2, r, shares, getDataStyle(fmt, 2), ""),
       W(3, r, pct, getDataStyle(fmt, fmt.columnCount - 1), force) >>

\* Lines 735-771: the retained investors, in list order.
RECURSIVE Retained(_)
Retained(investors) ==
    IF investors = <<>> THEN <<>>
    ELSE IF SkipInvestor(Head(investors)) THEN Retained(Tail(investors))
    ELSE <<Head(investors)>> \o Retained(Tail(investors))

RECURSIVE InvestorWrites(_, _, _, _, _)
InvestorWrites(fmt, r, kept, shares, pcts) ==
    IF kept = <<>> THEN <<>>
    ELSE LET inv == Head(kept)
         IN  CapRowWrites(fmt, r, inv.name, inv.investment,
                          Field(shares, inv.name), Field(pcts, inv.name), "0.0%")
             \o InvestorWrites(fmt, r + 1, Tail(kept), shares, pcts)

\* The totals row with sums that start at the table header: lines 828-830
\* with capTableStartRow in place of capTableStartRow + 1.
TotalWritesFromHeader(fmt, first, totalRow, startCol) ==
    LET col(j) == numToCol(startCol + j)
        sum(j) == Formula(SumText(col(j), first - 1, col(j), totalRow - 1))
    IN  << W(0, totalRow, Str("Total"), getHeaderStyle(fmt, 0), ""),
           W(1, totalRow, sum(1), getDataStyle(fmt, 1), ""),
           W(2, totalRow, sum(2), getDataStyle(fmt, 2), ""),
           W(3, totalRow, sum(3), getDataStyle(fmt, fmt.columnCount - 1), "0.0%") >>

\* Lines 819-839; first is the row below the table header.
TotalWrites(fmt, first, totalRow, startCol) ==
    LET col(j) == numToCol(startCol + j)
        sum(j) == Formula(SumText(col(j), first, col(j), totalRow - 1))
    IN  << W(0, totalRow, Str("Total"), getHeaderStyle(fmt, 0), ""),
           W(1, totalRow, sum(1), getDataStyle(fmt, 1), ""),
           W(2, totalRow, sum(2), getDataStyle(fmt, 2), ""),
           W(3, totalRow, sum(3), getDataStyle(fmt, fmt.columnCount - 1), "0.0%") >>

\* Lines 703-839.
CapTableWrites(p, fmt, r, startCol) ==
    LET calc == CalcOf(p)
        shares == MapOf(calc, "final_share_counts")
        pcts == MapOf(calc, "final_ownership_pct")
        kept == Retained(InvestorsOf(p))
        newRow == r + 1 + Len(kept)
    IN  CapHeaderWrites(fmt, r)
        \o InvestorWrites(fmt, r + 1, kept, shares, pcts)
        \o CapRowWrites(fmt, newRow, "New Investors",
                        OrElse(Field(SlotsOf(p), "amount"), Num(0)),
                        Field(shares, "New Investors"), Field(pcts, "New Investors"), "0.0%")
        \o CapRowWrites(fmt, newRow + 1, "Option Pool", Null,
                        Field(shares, "Option Pool"), Field(pcts, "Option Pool"), "0%")
        \o TotalWrites(fmt, r + 1, newRow + 2, startCol)

\* The blocks without the blank rows between them: the renderer without
\* lines 657 and 700.
RenderWritesPacked(p, fmt, startCol, startRow) ==
    RoundInputsWrites(p, fmt, startRow)
    \o CalculationsWrites(p, fmt, startRow + 5)
    \o CapTableWrites(p, fmt, startRow + 8, startCol)

\* Every write of the renderer, in program order.
RenderWrites(p, fmt, startCol, startRow) ==
    RoundInputsWrites(p, fmt, startRow)
    \o CalculationsWrites(p, fmt, startRow + 6)
    \o CapTableWrites(p, fmt, startRow + 10, startCol)

\* Lines 558-565: the rectangle cleared before writing.
approxInputRows == 6
approxCalcRows == 4
bufferRows == 10
\* The estimate without the table rows and the buffer: line 562 with only
\* approxInputRows and approxCalcRows.
estimatedMaxRowBlocksOnly(p, startRow) == startRow + approxInputRows + approxCalcRows
estimatedMaxRow(p, startRow) ==
    startRow + approxInputRows + approxCalcRows + (Len(InvestorsOf(p)) + 3) + bufferRows
ClearRect(p, startCol, startRow) ==
    [c1 |-> startCol, r1 |-> startRow, c2 |-> startCol + 3,
     r2 |-> estimatedMaxRow(p, startRow)]

\* The column the host resolves a column-letter string to.
HostColumn(letters) == colToNum(letters)
WriteCell(w, startCol) == <<HostColumn(numToCol(startCol + w.co)), w.row>>

\* The number format the range proxy holds after applyCellStyle: the format
\* just assigned, or nothing (the property was never loaded).
LocalNumberFormat(style) ==
    IF "numberFormat" \in DOMAIN style /\ style.numberFormat # ""
    THEN style.numberFormat ELSE "unloaded"
\* No default is forced: the renderer without lines 651-653, 765-767,
\* 790-792, 813-815 and 837-839.
ForcesNothing(w) == FALSE
ForcesDefault(w) ==
    /\ w.force # ""
    /\ LET nf == LocalNumberFormat(w.style)
       IN  nf = "unloaded" \/ nf = "General" \/ ~IncludesPercent(nf)
\* A renderer run reads a number format that was never loaded.
ReadsUnloaded(writes) ==
    \E i \in 1..Len(writes) :
        writes[i].force # "" /\ LocalNumberFormat(writes[i].style) = "unloaded"

\* The effect of one write on its cell.
ApplyWrite(cell, w) ==
    LET c1 == IF w.val.k = "null" THEN cell ELSE [cell EXCEPT !.content = w.val]
        c2 == applyCellStyle(c1, w.style)
    IN  IF ForcesDefault(w) THEN [c2 EXCEPT !.numberFormat = w.force] ELSE c2

\* The writes numbered in hits applied to one cell, in program order.
RECURSIVE ApplyHits(_, _, _)
ApplyHits(cell, writes, hits) ==
    IF hits = {} THEN cell
    ELSE LET k == CHOOSE k \in hits : \A j \in hits : k <= j
         IN  ApplyHits(ApplyWrite(cell, writes[k]), writes, hits \ {k})

\* The writes from the i-th on, each applied to the cell the host resolves
\* its address to; a write outside the document window is not observed.
ApplyWrites(sh, writes, i, startCol) ==
    LET at == [k \in i..Len(writes) |-> WriteCell(writes[k], startCol)]
    IN  [c \in DOMAIN sh |->
            ApplyHits(sh[c], writes, {k \in i..Len(writes) : at[k] = c})]

\* clearRange.clear(all), flushed by the sync of line 569.
ClearRegion(sh, rect) ==
    [c \in DOMAIN sh |->
        IF rect.c1 <= c[1] /\ c[1] <= rect.c2 /\ rect.r1 <= c[2] /\ c[2] <= rect.r2
        THEN DefaultCell ELSE sh[c]]

\* The writes of lines 598-839, flushed by the sync of line 846.
RenderOutput(sh, p, fmt) ==
    LET at == ParseInputAddress(fmt.address)
    IN  ApplyWrites(sh, RenderWrites(p, fmt, at.outputStartColNum, at.outputStartRow),
                    1, at.outputStartColNum)


(***************************************************************************)
(* acceptPreview (SheetConnector.ts:1025-1060).                            *)
(***************************************************************************)
Chars1 == <<"S", "h", "e", "e", "t", "1", "!">>
\* "Sheet1!A1:A2", a two-row selection of one column.
AddressA1A2 == Chars1 \o <<"A", "1", ":", "A", "2">>
\* "Sheet1!A1", a single-cell selection.
AddressA1 == Chars1 \o <<"A", "1">>
\* "Sheet1!1:2", a selection of whole rows: no column letters.
AddressRows == Chars1 \o <<"1", ":", "2">>

HeaderStyle ==
    [bold |-> TRUE, color |-> "#000000", fill |-> "#FFFF00", numberFormat |-> "General",
     wrapText |-> TRUE, borders |-> "none"]
DataStyle ==
    [bold |-> FALSE, color |-> "#000000", fill |-> "#FFFFFF", numberFormat |-> "0.00%",
     wrapText |-> FALSE, borders |-> "none"]

\* RangeFormatting values handed to acceptPreview.
Formattings ==
    { [address |-> AddressA1A2, rowCount |-> 2, columnCount |-> 1,
       headerRowStyle |-> <<HeaderStyle>>, dataRowStyle |-> <<DataStyle>>],
      [address |-> AddressA1, rowCount |-> 1, columnCount |-> 1,
       headerRowStyle |-> <<HeaderStyle>>, dataRowStyle |-> <<>>],
      [address |-> AddressRows, rowCount |-> 2, columnCount |-> 1,
       headerRowStyle |-> <<HeaderStyle>>, dataRowStyle |-> <<DataStyle>>] }

\* BackendPlanResult values handed to acceptPreview.
Plans ==
    { [slots |-> [roundType |-> Str("Series A"), amount |-> Num(5000000),
                  preMoney |-> Num(20000000), poolPct |-> Num(10)],
       calculated_values |->
          [post_money_valuation |-> Num(25000000),
           price_per_share |-> Num(10),
           final_share_counts |->
              ("Acme Fund" :> Num(100000)) @@ ("New Investors" :> Num(500000))
              @@ ("Option Pool" :> Num(66667)),
           final_ownership_pct |->
              ("Acme Fund" :> [k |-> "num", n |-> 15, per |-> 100])
              @@ ("New Investors" :> [k |-> "num", n |-> 75, per |-> 100])
              @@ ("Option Pool" :> [k |-> "num", n |-> 10, per |-> 100]),
           parsed_investors |->
              << [name |-> "Shareholder", investment |-> Null],
                 [name |-> "Acme Fund", investment |-> Num(1000000)] >>]] }

acceptPreviewBegin(p, fmt) ==
    /\ StartCall("accept")
    /\ plan' = p
    /\ formatting' = fmt
    /\ pc' = "accept" /\ phase' = "borders" /\ result' = "running"
    /\ idx' = 1
    /\ UNCHANGED <<sheet, session, ops, preSheet, fails>>

\* Lines 1035-1044: the sync of iteration idx carries the border clear that
\* iteration idx - 1 queued; the sync of line 1044 carries the last one.
acceptPreviewBorders ==
    /\ pc = "accept" /\ phase = "borders"
    /\ sheet' = IF idx > 1
                THEN SetBorder(sheet, previewAppliedRanges[idx - 1], "none")
                ELSE sheet
    /\ idx' = idx + 1
    /\ phase' = IF idx = Len(previewAppliedRanges) + 1 THEN "clear" ELSE "borders"
    /\ UNCHANGED <<session, pc, args, lastCall, result, preSheet, callSheet, callData,
                   callRanges, restored, prev, app, counters>>

\* The parse failure raised after the clear: lines 538-542 moved behind line
\* 569, the rectangle taken from the first cell of the sheet.
acceptPreviewParseFailsAfterClear ==
    /\ pc = "accept" /\ phase = "clear"
    /\ ~ParseInputAddress(formatting.address).ok
    /\ sheet' = ClearRegion(sheet, ClearRect(plan, 1, 1))
    /\ pc' = "idle" /\ phase' = "none" /\ result' = "threw"
    /\ UNCHANGED <<session, idx, args, lastCall, preSheet, callSheet, callData,
                   callRanges, restored, prev, app, counters>>

\* Lines 538-542 of the renderer: the address does not parse, the call throws.
acceptPreviewParseFails ==
    /\ pc = "accept" /\ phase = "clear"
    /\ ~ParseInputAddress(formatting.address).ok
    /\ pc' = "idle" /\ phase' = "none" /\ result' = "threw"
    /\ UNCHANGED <<sheet, session, idx, args, lastCall, preSheet, callSheet, callData,
                   callRanges, restored, prev, app, counters>>

\* Lines 557-569 of the renderer: the output rectangle is cleared and flushed.
acceptPreviewClear ==
    /\ pc = "accept" /\ phase = "clear"
    /\ LET at == ParseInputAddress(formatting.address)
       IN  /\ at.ok
           /\ sheet' = ClearRegion(sheet,
                           ClearRect(plan, at.outputStartColNum, at.outputStartRow))
    /\ phase' = "render"
    /\ UNCHANGED <<session, pc, idx, args, lastCall, result, preSheet, callSheet,
                   callData, callRanges, restored, prev, app, counters>>

\* The session as it stands: what acceptPreview would leave without lines
\* 1052-1053.
SessionKept == <<originalCellData, previewAppliedRanges>>

\* Lines 1052-1053: the state is cleared after the renderer has returned.
AfterAccept == <<EmptyMap, <<>>>>

\* Lines 598-846 of the renderer flushed, then lines 1049-1053.
acceptPreviewRender ==
    /\ pc = "accept" /\ phase = "render"
    /\ sheet' = RenderOutput(sheet, plan, formatting)
    /\ originalCellData' = AfterAccept[1]
    /\ previewAppliedRanges' = AfterAccept[2]
    /\ Return
    /\ UNCHANGED <<idx, args, lastCall, preSheet, callSheet, callData, callRanges,
                   restored, prev, app, counters>>

\* Lines 651, 765, 790, 813, 837: a number format that was never loaded is
\* read from the range proxy; the host library may raise PropertyNotLoaded.
acceptPreviewUnloaded ==
    /\ pc = "accept" /\ phase = "render"
    /\ LET at == ParseInputAddress(formatting.address)
       IN  ReadsUnloaded(RenderWrites(plan, formatting, at.outputStartColNum,
                                      at.outputStartRow))
    /\ pc' = "idle" /\ phase' = "none" /\ result' = "threw"
    /\ UNCHANGED <<sheet, session, idx, args, lastCall, preSheet, callSheet, callData,
                   callRanges, restored, prev, app, counters>>

\* A sync of acceptPreview or of the renderer is rejected: catch of lines
\* 849-852 and 1055-1059.
acceptPreviewThrow ==
    /\ pc = "accept"
    /\ Throw

(***************************************************************************)
(* The specification.                                                      *)
(***************************************************************************)
\* The state after construction on one of the given documents, with part
\* of the call budget already used.
(***************************************************************************)
(* The App component (src/unnamed/part_010): its React state, the polling  *)
(* timer, the calls of checkPlanStatus in flight and the plan service.     *)
(* Messages, progress bar and error text play no part in what the handlers *)
(* do and are left out.                                                    *)
(***************************************************************************)
MaxTasks == 1       \* plan tasks the service is asked for
MaxInFlight == 2    \* calls of checkPlanStatus in flight together

NoAddress == <<>>
NoData == [none |-> TRUE]
NoTimer == [task |-> 0, formatting |-> NoFormatting]
FreePoll == [phase |-> "free", task |-> 0, formatting |-> NoFormatting]

\* useState / useRef initial values, lines 14-51; the workbook selection and
\* the service are the environment.
AppStart ==
    [isReady |-> FALSE, isLoading |-> FALSE, isPreviewing |-> FALSE,
     isApplyingPlan |-> FALSE, isRejectingPreview |-> FALSE,
     selectedRangeAddress |-> NoAddress, planTaskId |-> 0,
     capturedFormatting |-> NoFormatting, finalPlanData |-> NoData,
     pollingInterval |-> NoTimer, successTimeout |-> FALSE,
     generate |-> "idle", currentAddress |-> NoAddress,
     rangeFormatting |-> NoFormatting, accept |-> NoData,
     selection |-> AddressA1A2,
     polls |-> [p \in 1..MaxInFlight |-> FreePoll],
     service |-> [t \in 1..MaxTasks |-> "none"],
     staged |-> [t \in 1..MaxTasks |-> 0],
     terminal |-> [t \in 1..MaxTasks |-> FALSE],
     resolved |-> FALSE]

InitOn(sheets, used) ==
    /\ sheet \in sheets
    /\ originalCellData = EmptyMap
    /\ previewAppliedRanges = <<>>
    /\ pc = "idle"
    /\ phase = "none"
    /\ idx = 1
    /\ ops = <<>>
    /\ plan = NoPlan
    /\ formatting = NoFormatting
    /\ lastCall = "none"
    /\ result = "none"
    /\ preSheet = sheet
    /\ callSheet = sheet
    /\ callData = EmptyMap
    /\ callRanges = <<>>
    /\ restored = <<>>
    /\ prev = [call |-> "none", result |-> "none", sheet |-> sheet,
               plan |-> NoPlan, formatting |-> NoFormatting]
    /\ calls = used
    /\ fails = 0
    /\ app = AppStart

InitFrom(used) == InitOn(UserSheets, used)
Init == InitFrom(0)

Next ==
    \/ \E o \in OpLists : applyPreviewBegin(o)
    \/ applyPreviewCapture
    \/ applyPreviewWrite
    \/ applyPreviewMarker
    \/ applyPreviewThrow
    \/ \E p \in Plans, f \in Formattings : acceptPreviewBegin(p, f)
    \/ acceptPreviewBorders
    \/ acceptPreviewParseFails
    \/ acceptPreviewClear
    \/ acceptPreviewRender
    \/ acceptPreviewUnloaded
    \/ acceptPreviewThrow
    \/ rejectPreviewNoop
    \/ rejectPreviewBegin
    \/ rejectPreviewRestore
    \/ rejectPreviewThrow

Spec == Init /\ [][Next]_vars


(***************************************************************************)
(* Vocabulary of the claims.                                               *)
(***************************************************************************)
Range(seq) == {seq[i] : i \in 1..Len(seq)}
OpRanges(opList) == {opList[i].range : i \in 1..Len(opList)}
TouchedCells(ranges) == UNION {CellsOf(a) : a \in ranges}
PairwiseDisjoint(opList) ==
    \A i, j \in 1..Len(opList) :
        i # j => CellsOf(opList[i].range) \cap CellsOf(opList[j].range) = {}
\* Cells that more than one op of the list targets.
OverlapCells(opList) ==
    {c \in Cells : \E i, j \in 1..Len(opList) :
        i # j /\ c \in CellsOf(opList[i].range) /\ c \in CellsOf(opList[j].range)}

SameValue(c1, c2) == ReadValue(c1.content) = ReadValue(c2.content)
SameStyle(c1, c2) == CaptureStyle(c1) = CaptureStyle(c2)
\* Cell c of sheet sh is as the snapshot of range a recorded it.
AsSnapshot(sh, c, state) ==
    /\ ReadValue(sh[c].content) = state.values[c]
    /\ CaptureStyle(sh[c]) = state.formatting[c]
HasMarker(sh, c) == sh[c].border = "dash"

\* The last call returned normally / threw.
Succeeded(name) == lastCall = name /\ result = "ok"
Threw(name) == lastCall = name /\ result = "threw"
\* A successful rejectPreview that directly followed a successful applyPreview.
StagedThenRejected ==
    /\ Succeeded("reject")
    /\ prev.call = "stage" /\ prev.result = "ok"
    /\ ops # <<>>

(***************************************************************************)
(* C1: for a list of ops with pairwise disjoint ranges, applyPreview       *)
(* directly followed by a successful rejectPreview leaves every cell of    *)
(* every touched range with the value and the style (font, fill, number    *)
(* format, wrap, borders) it had before applyPreview.                      *)
(***************************************************************************)
C1_StageRejectRoundTrip ==
    (StagedThenRejected /\ PairwiseDisjoint(ops)) =>
        \A c \in TouchedCells(OpRanges(ops)) :
            SameValue(sheet[c], preSheet[c]) /\ SameStyle(sheet[c], preSheet[c])

(***************************************************************************)
(* C2: in every reachable state a cell that carries the draft marker lies  *)
(* in a range of previewAppliedRanges; in particular no cell carries it    *)
(* after a successful acceptPreview or rejectPreview.                      *)
(***************************************************************************)
C2_MarkerOnlyUnderPreview ==
    \A c \in Cells :
        HasMarker(sheet, c) => c \in TouchedCells(Range(previewAppliedRanges))

(***************************************************************************)
(* C3: when a later op of one applyPreview targets cells an earlier op of  *)
(* the same call already targeted, the state before the first write stays  *)
(* the rollback target: after a successful rejectPreview each such cell    *)
(* has the value it had before applyPreview.                               *)
(***************************************************************************)
C3_OverlapRollsBackToFirstPreState ==
    StagedThenRejected =>
        \A c \in OverlapCells(ops) : SameValue(sheet[c], preSheet[c])

(***************************************************************************)
(* C4: in every reachable state previewAppliedRanges holds no address      *)
(* twice and every address in it has an entry in originalCellData.         *)
(***************************************************************************)
C4_TouchedRangesWellFormed ==
    /\ \A i, j \in 1..Len(previewAppliedRanges) :
          i # j => previewAppliedRanges[i] # previewAppliedRanges[j]
    /\ \A a \in Range(previewAppliedRanges) : a \in DOMAIN originalCellData

(***************************************************************************)
(* C5: after a successful acceptPreview and after a successful             *)
(* rejectPreview originalCellData and previewAppliedRanges are empty, and  *)
(* they are emptied only then: while the call is in flight, and after it   *)
(* has thrown, both are as they were when the call started.                *)
(***************************************************************************)
C5_ClearedOnlyOnSuccess ==
    lastCall \in {"accept", "reject"} =>
        /\ result = "ok" => session = <<EmptyMap, <<>>>>
        /\ result \in {"running", "threw"} => session = <<callData, callRanges>>

\* A preview with recorded ranges was accepted.
C5_AcceptedAPreview ==
    /\ Succeeded("accept")
    /\ callRanges # <<>>
    /\ DOMAIN callData # {}

\* The document after the first n ranges of a rejectPreview were restored.
RECURSIVE RejectThrough(_, _, _, _)
RejectThrough(sh, ranges, data, n) ==
    IF n = 0 THEN sh
    ELSE RestoreRange(RejectThrough(sh, ranges, data, n - 1), ranges[n], data[ranges[n]])

\* The document after the first n ops of an applyPreview were written and marked.
RECURSIVE StagedThrough(_, _, _)
StagedThrough(sh, opList, n) ==
    IF n = 0 THEN sh
    ELSE SetBorder(ApplyOpWrite(StagedThrough(sh, opList, n - 1), opList[n]),
                   opList[n].range, "dash")

\* The document after the borders of the first n ranges were cleared.
RECURSIVE BordersCleared(_, _, _)
BordersCleared(sh, ranges, n) ==
    IF n = 0 THEN sh ELSE SetBorder(BordersCleared(sh, ranges, n - 1), ranges[n], "none")

\* The output rectangle of the renderer, and a single acceptPreview that
\* never fails, run on document sh.
OutputBlock(p, fmt) ==
    LET at == ParseInputAddress(fmt.address)
    IN  CellsOf(ClearRect(p, at.outputStartColNum, at.outputStartRow)) \cap Cells
AcceptOnce(sh, ranges, p, fmt) ==
    LET at == ParseInputAddress(fmt.address)
    IN  RenderOutput(ClearRegion(BordersCleared(sh, ranges, Len(ranges)),
                                 ClearRect(p, at.outputStartColNum, at.outputStartRow)),
                     p, fmt)

\* The last op of the list that names address a.
LastOpOn(opList, a) ==
    CHOOSE i \in 1..Len(opList) :
        /\ opList[i].range = a
        /\ \A j \in (i + 1)..Len(opList) : opList[j].range # a

(***************************************************************************)
(* C6: when rejectPreview throws because the restore of the k-th address   *)
(* of previewAppliedRanges failed, the ranges 1..k-1 have the values and   *)
(* styles of their snapshots, the cells of the ranges k+1..n have not been *)
(* written by the call, and originalCellData and previewAppliedRanges are  *)
(* as they were before the call.                                           *)
(***************************************************************************)
C6_RejectFailsAtKth ==
    Threw("reject") =>
        LET k == Len(restored) + 1
            done == {callRanges[i] : i \in 1..(k - 1)}
        IN  /\ session = <<callData, callRanges>>
            /\ \A a \in done : \A c \in CellsOf(a) : AsSnapshot(sheet, c, callData[a])
            /\ \A i \in (k + 1)..Len(callRanges) :
                  \A c \in CellsOf(callRanges[i]) \ TouchedCells(done) :
                      sheet[c] = callSheet[c]

(***************************************************************************)
(* C7: when acceptPreview throws, while the borders are cleared or while   *)
(* the renderer runs, originalCellData and previewAppliedRanges are        *)
(* unchanged, and a rejectPreview that follows leaves every recorded range *)
(* with the values and styles of its snapshot.                             *)
(***************************************************************************)
C7_AcceptFailureKeepsRollback ==
    /\ Threw("accept") => session = <<callData, callRanges>>
    /\ (Succeeded("reject") /\ prev.call = "accept" /\ prev.result = "threw") =>
          \A a \in Range(callRanges) :
              \A c \in CellsOf(a) : AsSnapshot(sheet, c, callData[a])

(***************************************************************************)
(* C8: an applyPreview that throws leaves originalCellData and             *)
(* previewAppliedRanges as they were before the call.                      *)
(***************************************************************************)
C8_FailedStageKeepsSession ==
    Threw("stage") => session = <<callData, callRanges>>

(***************************************************************************)
(* C9: a rejectPreview that succeeds after a rejectPreview that threw      *)
(* leaves every recorded range equal to its snapshot, the session empty,   *)
(* and the document a single rejectPreview without failure would have      *)
(* left; an acceptPreview that succeeds after one that threw, with the     *)
(* same arguments, leaves the output block a single acceptPreview would    *)
(* have left.                                                              *)
(***************************************************************************)
C9_RetryIdempotent ==
    /\ (Succeeded("reject") /\ prev.call = "reject" /\ prev.result = "threw") =>
          /\ \A a \in Range(callRanges) :
                \A c \in CellsOf(a) : AsSnapshot(sheet, c, callData[a])
          /\ session = <<EmptyMap, <<>>>>
          /\ sheet = RejectThrough(prev.sheet, callRanges, callData, Len(callRanges))
    /\ (/\ Succeeded("accept") /\ prev.call = "accept" /\ prev.result = "threw"
        /\ prev.plan = plan /\ prev.formatting = formatting) =>
          \A c \in OutputBlock(plan, formatting) :
              sheet[c] = AcceptOnce(prev.sheet, callRanges, plan, formatting)[c]

(***************************************************************************)
(* C10: an applyPreview that returns after it was called with a preview    *)
(* still recorded leaves originalCellData and previewAppliedRanges with    *)
(* exactly the addresses of its own ops; each snapshot is the state of its *)
(* range as this call found it when it captured the range (for an address  *)
(* no earlier op of the call touches, the state when the call started),    *)
(* never a snapshot of the superseded preview.                             *)
(***************************************************************************)
C10_StageSupersedes ==
    (Succeeded("stage") /\ callRanges # <<>>) =>
        /\ Range(previewAppliedRanges) = OpRanges(ops)
        /\ DOMAIN originalCellData = OpRanges(ops)
        /\ \A a \in OpRanges(ops) :
              /\ originalCellData[a] =
                    CaptureState(StagedThrough(preSheet, ops, LastOpOn(ops, a) - 1), a)
              /\ (\A i \in 1..(LastOpOn(ops, a) - 1) :
                     CellsOf(ops[i].range) \cap CellsOf(a) = {})
                    => originalCellData[a] = CaptureState(preSheet, a)

\* A second applyPreview returned: it dropped an address of the first
\* preview and replaced the snapshot of an address both previews name.
C10_SupersededAPreview ==
    /\ Succeeded("stage")
    /\ \E a \in Range(callRanges) : a \notin DOMAIN originalCellData
    /\ \E a \in Range(callRanges) \cap DOMAIN originalCellData :
          originalCellData[a] # callData[a]

(***************************************************************************)
(* C11: a rejectPreview called with nothing recorded returns without       *)
(* error in one step, with no flush in between, and leaves the document,   *)
(* originalCellData and previewAppliedRanges as they were.                 *)
(***************************************************************************)
C11_RejectWithoutSession ==
    (lastCall = "reject" /\ callRanges = <<>>) =>
        /\ pc = "idle" /\ result = "ok"
        /\ restored = <<>>
        /\ sheet = callSheet
        /\ session = <<callData, callRanges>>

\* rejectPreview was called right after a successful acceptPreview.
C11_RejectedAfterAccept ==
    /\ Succeeded("reject")
    /\ callRanges = <<>>
    /\ prev.call = "accept" /\ prev.result = "ok"

(***************************************************************************)
(* C12: applyPreview handles its ops in list order; for each op the        *)
(* snapshot is recorded before the value or formula is written, the write  *)
(* is flushed before the marker, and the marker before the next op is      *)
(* captured.  Hence while the call runs, and after it has thrown, every    *)
(* cell it has changed lies in a range that has a snapshot.                *)
(***************************************************************************)
C12_SnapshotBeforeWriteBeforeMarker ==
    /\ pc = "stage" =>
          LET before == StagedThrough(preSheet, ops, idx - 1)
              a == ops[idx].range
          IN  /\ phase = "capture" =>
                    /\ sheet = before
                    /\ previewAppliedRanges = [i \in 1..(idx - 1) |-> ops[i].range]
              /\ phase = "write" =>
                    /\ sheet = before
                    /\ previewAppliedRanges = [i \in 1..idx |-> ops[i].range]
                    /\ a \in DOMAIN originalCellData
                    /\ originalCellData[a] = CaptureState(before, a)
              /\ phase = "marker" =>
                    /\ sheet = ApplyOpWrite(before, ops[idx])
                    /\ previewAppliedRanges = [i \in 1..idx |-> ops[i].range]
                    /\ a \in DOMAIN originalCellData
    /\ (lastCall = "stage" /\ result \in {"running", "threw"}) =>
          \A c \in Cells :
              sheet[c] # preSheet[c] =>
                  \E a \in DOMAIN originalCellData : c \in CellsOf(a)

\* applyPreview threw after it had changed the document.
C12_ThrewAfterAWrite ==
    /\ Threw("stage")
    /\ \E c \in Cells : sheet[c].content # preSheet[c].content

(***************************************************************************)
(* C13: after a successful acceptPreview every cell of every recorded      *)
(* range lies in the rectangle the renderer cleared and wrote, and holds   *)
(* the content the renderer gives that cell, not the value of the draft.   *)
(***************************************************************************)
BlankSheet == [c \in Cells |-> DefaultCell]
C13_AcceptOverwritesDraft ==
    Succeeded("accept") =>
        \A c \in TouchedCells(Range(callRanges)) :
            /\ c \in OutputBlock(plan, formatting)
            /\ sheet[c].content = RenderOutput(BlankSheet, plan, formatting)[c].content

(***************************************************************************)
(* applyOps (SheetConnector.ts:347-407): the ops applied without preview.  *)
(***************************************************************************)
\* String.prototype.toLowerCase on the strings of the model.
toLowerCase(str) ==
    IF str = "Blue" THEN "blue"
    ELSE IF str \in {"Shareholder", "SHAREHOLDER"} THEN "shareholder"
    ELSE str

\* Lines 409-422; "" stands for null.
colorMap ==
    ("blue" :> "#4F81BD") @@ ("green" :> "#9BBB59") @@ ("red" :> "#FF0000")
    @@ ("yellow" :> "#FFFF00") @@ ("orange" :> "#FFA500") @@ ("purple" :> "#800080")
    @@ ("gray" :> "#808080") @@ ("black" :> "#000000") @@ ("white" :> "#FFFFFF")
getColorHex(colorName) ==
    IF toLowerCase(colorName) \in DOMAIN colorMap
    THEN colorMap[toLowerCase(colorName)] ELSE ""

\* Line 361: op.values[0]?.[0], the value for the top-left cell of the range.
firstValue(op) == op.values[<<op.range.c1, op.range.r1>>]
\* Line 362: the first value is a string that names a color.
IsColorWrite(op) ==
    firstValue(op).k = "str" /\ getColorHex(toLowerCase(firstValue(op).s)) # ""

\* Line 366: targetRange.format.font.color = colorHex.
SetFontColor(sh, a, hex) ==
    [c \in Cells |-> IF c \in CellsOf(a) THEN [sh[c] EXCEPT !.color = hex] ELSE sh[c]]

\* The formulas matrices assigned to the range: 1x1 in applyPreview (line
\* 991), rowCount x columnCount in applyOps (lines 380-387).
previewFormulas(op) == [c \in {<<op.range.c1, op.range.r1>>} |-> op.formula]
directFormulas(op) == [c \in CellsOf(op.range) |-> op.formula]

\* Lines 358-397: what one op queues.
DirectEffect(sh, op) ==
    IF OpIsWrite(op)
    THEN IF IsColorWrite(op)
         THEN SetFontColor(sh, op.range, getColorHex(toLowerCase(firstValue(op).s)))
         ELSE WriteValues(sh, op.range, op.values)
    ELSE IF OpIsFormula(op) THEN WriteFormula(sh, op.range, op.formula)
    ELSE sh

\* The queued effects of the ops from..to, flushed together.
RECURSIVE DirectThrough(_, _, _, _)
DirectThrough(sh, opList, from, to) ==
    IF from > to THEN sh
    ELSE DirectEffect(DirectThrough(sh, opList, from, to - 1), opList[to])

\* The next op at or after position from whose branch awaits the sync of
\* line 378 (a formula op), or Len + 1.
NextLoad(opList, from) ==
    LET hits == {j \in from..Len(opList) : OpIsFormula(opList[j])}
    IN  IF hits = {} THEN Len(opList) + 1
        ELSE CHOOSE j \in hits : \A i \in hits : j <= i

\* Malformed ops and ops that fill a range of several cells with a formula,
\* next to the well-formed ones.
MalformedWrite(id, a) ==
    [id |-> id, range |-> a, type |-> "write", hasValues |-> FALSE,
     values |-> [c \in CellsOf(a) |-> EmptyContent], formula |-> NoText]
DirectOpUniverse ==
    { WriteOp("op1", Addr(1, 1, 1, 2), "x"),
      WriteOp("op3", Addr(2, 1, 2, 1), "w"),
      FormulaOp("op4", Addr(3, 1, 3, 1), SumText(<<"A">>, 1, <<"A">>, 2)),
      MalformedWrite("op5", Addr(2, 1, 2, 1)),
      FormulaOp("op6", Addr(1, 2, 1, 2), NoText),
      FormulaOp("op7", Addr(1, 1, 1, 2), RefText(<<"B">>, 1)),
      WriteOp("op8", Addr(1, 2, 1, 2), "red"),
      WriteOp("op9", Addr(2, 1, 2, 1), "Blue") }
DirectOpLists == SeqsUpTo(DirectOpUniverse, MaxOps)

applyOpsBegin(opsArg) ==
    /\ StartCall("apply")
    /\ ops' = opsArg
    /\ idx' = 1
    /\ pc' = "apply" /\ phase' = "queue" /\ result' = "running"
    /\ UNCHANGED <<sheet, session, plan, formatting, preSheet, fails>>

\* Lines 377-378: the sync of a formula op; it carries what the ops before
\* it have queued since the last sync.  phase "loaded" says that op idx is a
\* formula op whose sync is done and whose formulas matrix is queued.
applyOpsLoad ==
    /\ pc = "apply"
    /\ LET j == NextLoad(ops, IF phase = "loaded" THEN idx + 1 ELSE idx)
       IN  /\ j <= Len(ops)
           /\ sheet' = DirectThrough(sheet, ops, idx, j - 1)
           /\ idx' = j
    /\ phase' = "loaded"
    /\ UNCHANGED <<session, pc, args, lastCall, result, preSheet, callSheet, callData,
                   callRanges, restored, prev, app, counters>>

\* Line 400: the final sync.
applyOpsFinish ==
    /\ pc = "apply"
    /\ NextLoad(ops, IF phase = "loaded" THEN idx + 1 ELSE idx) > Len(ops)
    /\ sheet' = DirectThrough(sheet, ops, idx, Len(ops))
    /\ idx' = Len(ops) + 1
    /\ Return
    /\ UNCHANGED <<session, args, lastCall, preSheet, callSheet, callData, callRanges,
                   restored, prev, app, counters>>

\* A sync of applyOps is rejected: catch of lines 403-406.
applyOpsThrow ==
    /\ pc = "apply"
    /\ Throw

\* Line 1002 for a formula op on a range of several cells: the host rejects
\* the 1x1 formulas matrix, whose dimensions do not match the range.
applyPreviewMismatch ==
    /\ pc = "stage" /\ phase = "write"
    /\ ~OpWriteAccepted(ops[idx])
    /\ pc' = "idle" /\ phase' = "none" /\ result' = "threw"
    /\ UNCHANGED <<sheet, session, idx, args, lastCall, preSheet, callSheet, callData,
                   callRanges, restored, prev, app, counters>>

\* One call of applyPreview or of applyOps on the user's sheet.
OpsInit == InitFrom(MaxCalls - CallWeight("stage"))

OpsNext ==
    \/ \E o \in DirectOpLists : applyPreviewBegin(o)
    \/ applyPreviewCapture
    \/ applyPreviewWrite
    \/ applyPreviewMismatch
    \/ applyPreviewMarker
    \/ applyPreviewThrow
    \/ \E o \in DirectOpLists : applyOpsBegin(o)
    \/ applyOpsLoad
    \/ applyOpsFinish
    \/ applyOpsThrow

OpsSpec == OpsInit /\ [][OpsNext]_vars

\* The cells only the i-th op of the list targets.
OnlyOp(opList, i) ==
    CellsOf(opList[i].range)
        \ UNION {CellsOf(opList[j].range) : j \in (1..Len(opList)) \ {i}}
\* An op that misses the payload of its type.
Malformed(op) == ~OpIsWrite(op) /\ ~OpIsFormula(op)
\* applyPreview or applyOps returned normally.
Applied == lastCall \in {"stage", "apply"} /\ result = "ok"

(***************************************************************************)
(* C14: after applyPreview or applyOps returned, the cells of a write op   *)
(* without values, and of a formula op without formula, are as they were   *)
(* before the call: values, styles and borders.                            *)
(***************************************************************************)
C14_MalformedOpIsNoOp ==
    Applied =>
        \A i \in 1..Len(ops) :
            Malformed(ops[i]) =>
                \A c \in OnlyOp(ops, i) : sheet[c] = callSheet[c]

(***************************************************************************)
(* C15: for a formula op, applyPreview and applyOps assign a formulas      *)
(* matrix that covers every cell of the op's range, and after the call     *)
(* returned every cell of the range holds the formula of the op.           *)
(***************************************************************************)
C15_FormulaFillsRange ==
    /\ (pc = "stage" /\ phase = "write" /\ OpIsFormula(ops[idx])) =>
          DOMAIN previewFormulas(ops[idx]) = CellsOf(ops[idx].range)
    /\ (pc = "apply" /\ phase = "loaded") =>
          DOMAIN directFormulas(ops[idx]) = CellsOf(ops[idx].range)
    /\ Applied =>
          \A i \in 1..Len(ops) :
              OpIsFormula(ops[i]) =>
                  \A c \in OnlyOp(ops, i) : sheet[c].content = Formula(ops[i].formula)

(***************************************************************************)
(* C16: after applyPreview or applyOps returned, every cell of a write op  *)
(* that carries values holds the value the op gives it, whatever the       *)
(* value, and has the font and the fill it had before the call.            *)
(***************************************************************************)
C16_WriteSetsValuesOnly ==
    Applied =>
        \A i \in 1..Len(ops) :
            OpIsWrite(ops[i]) =>
                \A c \in OnlyOp(ops, i) :
                    /\ sheet[c].content = ops[i].values[c]
                    /\ sheet[c].bold = callSheet[c].bold
                    /\ sheet[c].color = callSheet[c].color
                    /\ sheet[c].fill = callSheet[c].fill

(***************************************************************************)
(* The renderer on its own: acceptPreview with no preview recorded, on a   *)
(* window wide enough for the whole output block.                          *)
(***************************************************************************)
\* Columns and rows of the window the output block is rendered into.
MaxOutCol == 9
MaxOutRow == 18
OutCells == (1..MaxOutCol) \X (1..MaxOutRow)

\* An empty window, and one whose cells all hold stale content and formats.
StaleCell ==
    [DefaultCell EXCEPT !.content = Str("old"), !.bold = TRUE, !.numberFormat = "#,##0"]
RenderSheets == { [c \in OutCells |-> DefaultCell], [c \in OutCells |-> StaleCell] }

\* "Sheet1!B2:C3", a selection of two columns.
AddressB2C3 == Chars1 \o <<"B", "2", ":", "C", "3">>
\* Captured data styles: a plain number format, General, a percent format,
\* and a style whose number format is empty.
PlainStyle == [DataStyle EXCEPT !.numberFormat = "#,##0"]
GeneralStyle == [DataStyle EXCEPT !.numberFormat = "General"]
PercentStyle == [DataStyle EXCEPT !.numberFormat = "0%"]
BareStyle == [DataStyle EXCEPT !.numberFormat = ""]
\* A header style and a percent data style that differ from the others in
\* their fill, and "Sheet1!A1:D2", a selection of four columns.
LastHeaderStyle == [HeaderStyle EXCEPT !.fill = "#00FF00", !.bold = FALSE]
FirstPercentStyle == [DataStyle EXCEPT !.fill = "#FFCC99", !.numberFormat = "0%"]
AddressA1D2 == Chars1 \o <<"A", "1", ":", "D", "2">>
\* "B2:C3", the same selection as "Sheet1!B2:C3" without the sheet name.
AddressBare == <<"B", "2", ":", "C", "3">>

RenderFormattings ==
    Formattings \cup
    { [address |-> AddressB2C3, rowCount |-> 2, columnCount |-> 2,
       headerRowStyle |-> <<HeaderStyle, HeaderStyle>>,
       dataRowStyle |-> <<PlainStyle, GeneralStyle>>],
      [address |-> AddressB2C3, rowCount |-> 2, columnCount |-> 2,
       headerRowStyle |-> <<HeaderStyle, HeaderStyle>>,
       dataRowStyle |-> <<PlainStyle, PercentStyle>>],
      [address |-> AddressA1A2, rowCount |-> 2, columnCount |-> 1,
       headerRowStyle |-> <<HeaderStyle>>, dataRowStyle |-> <<PlainStyle>>],
      [address |-> AddressA1A2, rowCount |-> 2, columnCount |-> 1,
       headerRowStyle |-> <<HeaderStyle>>, dataRowStyle |-> <<BareStyle>>],
      [address |-> AddressB2C3, rowCount |-> 2, columnCount |-> 2,
       headerRowStyle |-> <<HeaderStyle, LastHeaderStyle>>,
       dataRowStyle |-> <<FirstPercentStyle, PlainStyle>>],
      [address |-> AddressBare, rowCount |-> 2, columnCount |-> 2,
       headerRowStyle |-> <<HeaderStyle, HeaderStyle>>,
       dataRowStyle |-> <<PlainStyle, PercentStyle>>],
      [address |-> Chars1 \o <<"A", ":", "B">>, rowCount |-> 2, columnCount |-> 2,
       headerRowStyle |-> <<HeaderStyle, HeaderStyle>>,
       dataRowStyle |-> <<PlainStyle, PercentStyle>>],
      [address |-> AddressA1D2, rowCount |-> 2, columnCount |-> 4,
       headerRowStyle |-> <<HeaderStyle, LastHeaderStyle, HeaderStyle, LastHeaderStyle>>,
       dataRowStyle |-> <<PlainStyle, GeneralStyle, PlainStyle, FirstPercentStyle>>] }

\* Plans with no, one and two retained investors, a plan without
\* calculated values, one without slots, and one whose calculated values
\* hold nothing but an investor without investment.
PlanWith(investors, shares) ==
    [slots |-> [roundType |-> Str("Series A"), amount |-> Num(5000000),
                preMoney |-> Num(20000000), poolPct |-> Num(10)],
     calculated_values |->
        [post_money_valuation |-> Num(25000000),
         price_per_share |-> Num(10),
         final_share_counts |->
            shares @@ ("New Investors" :> Num(500000)) @@ ("Option Pool" :> Num(66667)),
         final_ownership_pct |->
            [n \in DOMAIN shares |-> [k |-> "num", n |-> 5, per |-> 100]]
            @@ ("New Investors" :> [k |-> "num", n |-> 75, per |-> 100])
            @@ ("Option Pool" :> [k |-> "num", n |-> 10, per |-> 100]),
         parsed_investors |-> investors]]
RenderPlans ==
    Plans \cup
    { PlanWith(<<>>, [n \in {} |-> Null]),
      PlanWith(<< [name |-> "", investment |-> Num(1)],
                  [name |-> "SHAREHOLDER", investment |-> Null] >>,
               [n \in {} |-> Null]),
      PlanWith(<< [name |-> "Acme Fund", investment |-> Num(1000000)],
                  [name |-> "shareholder", investment |-> Null],
                  [name |-> "Beta LLC", investment |-> Num(2000000)] >>,
               ("Acme Fund" :> Num(100000)) @@ ("Beta LLC" :> Num(200000))),
      [slots |-> [roundType |-> Str("Seed")]],
      [calculated_values |->
          PlanWith(<< [name |-> "Acme Fund", investment |-> Num(1000000)] >>,
                   ("Acme Fund" :> Num(100000))).calculated_values],
      [slots |-> PlanWith(<<>>, [n \in {} |-> Null]).slots,
       calculated_values |->
          [parsed_investors |-> << [name |-> "Acme Fund", investment |-> Null] >>]] }

\* One acceptPreview per behaviour.
RenderInit == InitOn(RenderSheets, MaxCalls - CallWeight("accept"))

RenderNext ==
    \/ \E p \in RenderPlans, f \in RenderFormattings : acceptPreviewBegin(p, f)
    \/ acceptPreviewBorders
    \/ acceptPreviewParseFails
    \/ acceptPreviewClear
    \/ acceptPreviewRender
    \/ acceptPreviewUnloaded
    \/ acceptPreviewThrow

RenderSpec == RenderInit /\ [][RenderNext]_vars

\* Where the rendered block is: its first column, and the rows located by
\* the labels the renderer writes.
OutCol == ParseInputAddress(formatting.address).outputStartColNum
RowsLabelled(label) ==
    {r \in 1..MaxOutRow : sheet[<<OutCol, r>>].content = Str(label)}
TableHeaderRows ==
    {r \in RowsLabelled("Shareholder") :
        sheet[<<OutCol + 3, r>>].content = Str("% Ownership")}
\* The entries of parsed_investors the table is to show, by name.
IsShown(inv) == inv.name # "" /\ toLowerCase(inv.name) # "shareholder"
ShownNames(investors) ==
    LET shown == SelectSeq(investors, IsShown)
    IN  [i \in 1..Len(shown) |-> shown[i].name]
\* The number a cell holds (0 where it holds none), and the value of a
\* SUM formula over one column of the document.
NumberIn(cell) ==
    IF cell.content.k = "num" /\ cell.content.per = 1 THEN cell.content.n ELSE 0
RECURSIVE SumRows(_, _, _)
SumRows(col, r1, r2) ==
    IF r1 > r2 THEN 0 ELSE NumberIn(sheet[<<col, r2>>]) + SumRows(col, r1, r2 - 1)
SumValue(f) == SumRows(colToNum(f.c1), f.r1, f.r2)
\* The renderer ran to its end.
Rendered == Succeeded("accept")
\* The rows of the table's percentage cells: below the header through Total.
PercentRows ==
    UNION {{r \in (h + 1)..MaxOutRow : \E t \in RowsLabelled("Total") : r <= t} :
             h \in TableHeaderRows}
Percentish(style) ==
    "numberFormat" \in DOMAIN style /\ IncludesPercent(style.numberFormat)

(***************************************************************************)
(* C17: in the rendered table the Investment, Shares and % Ownership cells *)
(* of the Total row each hold the SUM over their own column from the first *)
(* row below the table header through the row above Total; these rows are  *)
(* the shown investors, New Investors and Option Pool, for any number of   *)
(* shown investors; with shares 100000, 500000 and 66667 the Shares sum is *)
(* 666667.                                                                 *)
(***************************************************************************)
C17_TotalSumsDataRows ==
    Rendered =>
        \E h \in TableHeaderRows : \E t \in RowsLabelled("Total") :
            /\ TableHeaderRows = {h} /\ RowsLabelled("Total") = {t}
            /\ t - 1 - h = Len(ShownNames(InvestorsOf(plan))) + 2
            /\ \A j \in 1..3 :
                  sheet[<<OutCol + j, t>>].content =
                      Formula(SumText(numToCol(OutCol + j), h + 1,
                                      numToCol(OutCol + j), t - 1))
            /\ colToNum(sheet[<<OutCol + 2, t>>].content.f.c1) = OutCol + 2
            /\ plan \in Plans => SumValue(sheet[<<OutCol + 2, t>>].content.f) = 666667

\* The plan with the shares 100000, 500000 and 66667 was rendered.
C17_RenderedOneInvestor ==
    /\ Rendered
    /\ plan \in Plans
    /\ Len(ShownNames(InvestorsOf(plan))) = 1

(***************************************************************************)
(* C18: below its header the table has one row per entry of                *)
(* parsed_investors, in list order, leaving out the entries whose name is  *)
(* empty or is "shareholder" in any case, then New Investors, Option Pool  *)
(* and Total; with k shown entries Total is k + 3 rows below the header    *)
(* and no row in between is blank.                                         *)
(***************************************************************************)
C18_TableRows ==
    Rendered =>
        LET names == ShownNames(InvestorsOf(plan))
                        \o <<"New Investors", "Option Pool", "Total">>
        IN  \E h \in TableHeaderRows :
                /\ TableHeaderRows = {h}
                /\ \A i \in 1..Len(names) :
                      sheet[<<OutCol, h + i>>].content = Str(names[i])
                /\ RowsLabelled("Total") = {h + Len(names)}

\* A plan with placeholder entries between two shown investors was rendered.
C18_RenderedTwoInvestors ==
    /\ Rendered
    /\ Len(ShownNames(InvestorsOf(plan))) = 2
    /\ Len(InvestorsOf(plan)) = 3

(***************************************************************************)
(* C19: after a render the Pool Pct value and the % Ownership cell of      *)
(* every table row through Total have a number format with a percent sign, *)
(* whatever the captured styles are.                                       *)
(***************************************************************************)
C19_PercentCellsArePercent ==
    Rendered =>
        /\ \A r \in RowsLabelled("Pool Pct (%)") :
              IncludesPercent(sheet[<<OutCol + 1, r>>].numberFormat)
        /\ \A r \in PercentRows :
              IncludesPercent(sheet[<<OutCol + 3, r>>].numberFormat)

\* A render with captured number formats that hold no percent sign.
C19_RenderedPlainFormats ==
    /\ Rendered
    /\ formatting.dataRowStyle # <<>>
    /\ \A i \in 1..Len(formatting.dataRowStyle) :
          ~IncludesPercent(formatting.dataRowStyle[i].numberFormat)
    /\ PercentRows # {}
    /\ RowsLabelled("Pool Pct (%)") # {}

(***************************************************************************)
(* C20: when the style resolved for the percentage cells holds no percent  *)
(* format, the % Ownership cell of every table row (investors, New         *)
(* Investors, Option Pool, Total) gets exactly "0.0%", and the Pool Pct    *)
(* value gets exactly "0%".                                                *)
(***************************************************************************)
C20_DefaultPercentFormats ==
    Rendered =>
        /\ ~Percentish(getDataStyle(formatting, formatting.columnCount - 1)) =>
              \A r \in PercentRows : sheet[<<OutCol + 3, r>>].numberFormat = "0.0%"
        /\ ~Percentish(poolStyle(formatting)) =>
              \A r \in RowsLabelled("Pool Pct (%)") :
                  sheet[<<OutCol + 1, r>>].numberFormat = "0%"

\* The start row of the rendered block, and the rows of its labels.
OutRow == ParseInputAddress(formatting.address).outputStartRow
BlockLabels ==
    {"Round Inputs", "Round Type", "Amount ($M)", "Pre-Money ($M)", "Pool Pct (%)",
     "Calculations", "Post-Money ($M)", "Price per Share", "Total"}
ValueLabels ==
    {"Round Type", "Amount ($M)", "Pre-Money ($M)", "Post-Money ($M)", "Price per Share"}
RowsOf(labels) == UNION {RowsLabelled(l) : l \in labels}
\* styles[j], else styles[0], else no style; j counted from 0.
Positional(styles, j) ==
    IF j < Len(styles) THEN styles[j + 1]
    ELSE IF styles # <<>> THEN styles[1]
    ELSE NullStyle
\* The cell carries the style: applying the style again changes nothing.
Wears(cell, style) == applyCellStyle(cell, style) = cell

(***************************************************************************)
(* C21: after a render every header cell (the block headers, the labels,   *)
(* the four table headers) wears headerRowStyle[j] and every value cell    *)
(* wears dataRowStyle[j], j being the position of the cell's column in the *)
(* block and index 0 standing in for an absent index j, for every          *)
(* columnCount.  The percentage cells are left aside here.                 *)
(***************************************************************************)
C21_PositionalStyles ==
    Rendered =>
        \E h \in TableHeaderRows : \E t \in RowsLabelled("Total") :
            /\ \A r \in RowsOf(BlockLabels) :
                  Wears(sheet[<<OutCol, r>>], Positional(formatting.headerRowStyle, 0))
            /\ \A j \in 0..3 :
                  Wears(sheet[<<OutCol + j, h>>], Positional(formatting.headerRowStyle, j))
            /\ \A r \in RowsOf(ValueLabels) :
                  Wears(sheet[<<OutCol + 1, r>>], Positional(formatting.dataRowStyle, 1))
            /\ \A r \in (h + 1)..t : \A j \in 0..2 :
                  \/ r = t /\ j = 0
                  \/ Wears(sheet[<<OutCol + j, r>>], Positional(formatting.dataRowStyle, j))

\* The captured data styles whose number format holds a percent sign.
PercentHits ==
    {i \in 1..Len(formatting.dataRowStyle) : Percentish(formatting.dataRowStyle[i])}
WearsAPercentStyle(cell) ==
    \E i \in PercentHits : Wears(cell, formatting.dataRowStyle[i])

(***************************************************************************)
(* C22: when some captured data style has a number format with a percent   *)
(* sign, the Pool Pct value and the % Ownership cell of every table row    *)
(* through Total wear such a style after a render, whatever the positional *)
(* style of their column is.                                               *)
(***************************************************************************)
C22_PercentStylePreferred ==
    Rendered /\ PercentHits # {} =>
        /\ \A r \in RowsLabelled("Pool Pct (%)") :
              WearsAPercentStyle(sheet[<<OutCol + 1, r>>])
        /\ \A r \in PercentRows :
              WearsAPercentStyle(sheet[<<OutCol + 3, r>>])

(***************************************************************************)
(* The renderer run twice on one document: two acceptPreview calls with no *)
(* preview recorded, on a blank window tall enough for a long table.       *)
(***************************************************************************)
MaxInvestors == 11
MaxTallRow == 25
\* A plan whose parsed_investors holds n named investors.
PlanOfSize(n) ==
    LET names == <<"Inv01", "Inv02", "Inv03", "Inv04", "Inv05", "Inv06", "Inv07",
                   "Inv08", "Inv09", "Inv10", "Inv11", "Inv12">>
    IN  PlanWith([i \in 1..n |-> [name |-> names[i], investment |-> Num(1000 * i)]],
                 [nm \in {names[i] : i \in 1..n} |-> Num(100)])
ReRenderPlans == {PlanOfSize(n) : n \in {0, 1, MaxInvestors}}

ReRenderInit ==
    InitOn({[c \in (1..MaxOutCol) \X (1..MaxTallRow) |-> DefaultCell]},
           MaxCalls - 2 * CallWeight("accept"))

ReRenderNext ==
    \/ \E p \in ReRenderPlans, f \in Formattings : acceptPreviewBegin(p, f)
    \/ acceptPreviewBorders
    \/ acceptPreviewParseFails
    \/ acceptPreviewClear
    \/ acceptPreviewRender
    \/ acceptPreviewUnloaded
    \/ acceptPreviewThrow

ReRenderSpec == ReRenderInit /\ [][ReRenderNext]_vars

\* The last row of a rendering of plan p: its Total row.
LastRowOf(p) == OutRow + 13 + Len(ShownNames(InvestorsOf(p)))
\* Two renderings in a row succeeded for the same input selection, the
\* second with fewer investor rows.
ReRenderedShorter ==
    /\ Rendered
    /\ prev.call = "accept" /\ prev.result = "ok"
    /\ prev.formatting = formatting
    /\ Len(ShownNames(InvestorsOf(plan))) < Len(ShownNames(InvestorsOf(prev.plan)))

(***************************************************************************)
(* C23: when a plan is rendered onto a blank sheet and a plan with fewer   *)
(* investor rows is then rendered for the same input selection, no cell    *)
(* below the second rendering's Total row keeps anything of the first      *)
(* rendering, whatever the difference between the two row counts is.       *)
(***************************************************************************)
C23_NoStaleCells ==
    ReRenderedShorter =>
        \A c \in DOMAIN sheet : c[2] > LastRowOf(plan) => sheet[c] = DefaultCell

\* The rectangle the renderer clears for the call in flight, and a cell as
\* it was when the call started, but for its borders.
InClearRect(c) ==
    LET rect == ClearRect(plan, OutCol, OutRow)
    IN  rect.c1 <= c[1] /\ c[1] <= rect.c2 /\ rect.r1 <= c[2] /\ c[2] <= rect.r2
Untouched(c) == [sheet[c] EXCEPT !.border = "none"] = [callSheet[c] EXCEPT !.border = "none"]

(***************************************************************************)
(* C24: during an acceptPreview nothing is written before the clear; once  *)
(* the clear is flushed every cell of the estimated rectangle is blank     *)
(* (no content, default format) and no other cell has changed; and after   *)
(* the render every cell that changed lies inside that rectangle, for any  *)
(* number of parsed_investors entries, retained or skipped.                *)
(***************************************************************************)
C24_ClearThenWriteInside ==
    /\ pc = "accept" /\ phase \in {"borders", "clear"} =>
          \A c \in DOMAIN sheet : Untouched(c)
    /\ pc = "accept" /\ phase = "render" =>
          \A c \in DOMAIN sheet :
              IF InClearRect(c) THEN sheet[c] = DefaultCell ELSE Untouched(c)
    /\ Rendered =>
          /\ \A c \in DOMAIN sheet : ~InClearRect(c) => Untouched(c)
          /\ LET writes == RenderWrites(plan, formatting, OutCol, OutRow)
             IN  \A i \in 1..Len(writes) : InClearRect(WriteCell(writes[i], OutCol))

\* A render over stale cells of a plan with retained and skipped entries.
C24_RenderedOverStaleCells ==
    /\ Rendered
    /\ \E c \in DOMAIN sheet : InClearRect(c) /\ callSheet[c] = StaleCell
    /\ \E c \in DOMAIN sheet : ~InClearRect(c)
    /\ Len(InvestorsOf(plan)) = 3
    /\ Len(ShownNames(InvestorsOf(plan))) = 2
    /\ \A r \in RowsLabelled("Total") : \A j \in 0..3 : InClearRect(<<OutCol + j, r>>)
    /\ RowsLabelled("Total") # {}

\* The label stands in exactly one row of the block's first column; a row
\* of the block holds nothing.
LabelAt(label, row) == RowsLabelled(label) = {row}
BlankRow(row) == \A j \in 0..3 : sheet[<<OutCol + j, row>>].content = EmptyContent

(***************************************************************************)
(* C25: with output start row r a render puts Round Inputs and its four    *)
(* labels in rows r..r+4, Calculations and its two labels in rows          *)
(* r+6..r+8 and the Cap Table header in row r+10, with rows r+5 and r+9    *)
(* blank, whatever the plan holds.                                         *)
(***************************************************************************)
C25_BlockLayout ==
    Rendered =>
        /\ LabelAt("Round Inputs", OutRow)
        /\ LabelAt("Round Type", OutRow + 1)
        /\ LabelAt("Amount ($M)", OutRow + 2)
        /\ LabelAt("Pre-Money ($M)", OutRow + 3)
        /\ LabelAt("Pool Pct (%)", OutRow + 4)
        /\ BlankRow(OutRow + 5)
        /\ LabelAt("Calculations", OutRow + 6)
        /\ LabelAt("Post-Money ($M)", OutRow + 7)
        /\ LabelAt("Price per Share", OutRow + 8)
        /\ BlankRow(OutRow + 9)
        /\ TableHeaderRows = {OutRow + 10}

\* A render from row 2 over stale cells of a plan without calculated values.
C25_RenderedFromRowTwo ==
    /\ Rendered
    /\ OutRow = 2
    /\ callSheet[<<OutCol, OutRow + 5>>] = StaleCell
    /\ "calculated_values" \notin DOMAIN plan

\* The addresses of the selections rendered for, each with the index of its
\* rightmost column and its start row.
RightmostAndRow ==
    (AddressA1 :> <<1, 1>>) @@ (AddressA1A2 :> <<1, 1>>) @@ (AddressB2C3 :> <<3, 2>>)
    @@ (AddressA1D2 :> <<4, 1>>) @@ (AddressBare :> <<3, 2>>)
Anchored(E, R) ==
    /\ sheet[<<E + 2, R>>].content = Str("Round Inputs")
    /\ \A c \in DOMAIN sheet :
          ~Untouched(c) => c[1] \in (E + 2)..(E + 5) /\ c[2] >= R
    /\ LET writes == RenderWrites(plan, formatting, OutCol, OutRow)
       IN  /\ WriteCell(writes[1], OutCol) = <<E + 2, R>>
           /\ \A i \in 1..Len(writes) :
                 WriteCell(writes[i], OutCol)[1] \in (E + 2)..(E + 5)

(***************************************************************************)
(* C26: for an address that fits the address pattern, with rightmost       *)
(* column index E and start row R (a single cell counting as its own       *)
(* rightmost column), the renderer computes the output anchor (E+2, R);    *)
(* after a render the first output cell, Round Inputs, is at column E+2    *)
(* and row R, and all output lies in columns E+2..E+5.                     *)
(***************************************************************************)
C26_OutputAnchor ==
    lastCall = "accept" /\ formatting.address \in DOMAIN RightmostAndRow =>
        LET E == RightmostAndRow[formatting.address][1]
            R == RightmostAndRow[formatting.address][2]
        IN  /\ ParseInputAddress(formatting.address) =
                  [ok |-> TRUE, outputStartColNum |-> E + 2, outputStartRow |-> R]
            /\ Rendered => Anchored(E, R)

\* The text of an address after its sheet name, if it has one.
Unqualified(a) ==
    LET i == IndexOfFrom(a, "!", 1)
    IN  IF i = 0 THEN a ELSE SubSeq(a, i + 1, Len(a))

(***************************************************************************)
(* C27: the renderer's parse of an address that fits the address pattern   *)
(* gives the same result, and so the same output anchor, with and without  *)
(* the sheet name in front; for a single cell the end column is the start  *)
(* column.                                                                 *)
(***************************************************************************)
C27_QualifierIrrelevant ==
    lastCall = "accept" /\ formatting.address \in DOMAIN RightmostAndRow =>
        LET bare == Unqualified(formatting.address)
        IN  /\ ParseInputAddress(bare) = ParseInputAddress(Chars1 \o bare)
            /\ ParseInputAddress(Chars1 \o bare).ok
            /\ formatting.address = AddressA1 =>
                  ParseInputAddress(AddressA1).outputStartColNum = colToNum(<<"A">>) + 2

(***************************************************************************)
(* C28: an acceptPreview whose formatting.address does not fit the address *)
(* pattern never returns normally and ends by throwing, and at no point of *)
(* the call has the renderer cleared or written a cell of the document.    *)
(***************************************************************************)
C28_ParseFailureAborts ==
    lastCall = "accept" /\ formatting.address \notin DOMAIN RightmostAndRow =>
        /\ ~Rendered
        /\ pc = "idle" => Threw("accept")
        /\ \A c \in DOMAIN sheet : Untouched(c)

\* The renderer gave up on an address without row or column parts, on a
\* sheet with stale cells, without the host having rejected anything.
C28_ThrewOnBadAddress ==
    /\ Threw("accept")
    /\ fails = 0
    /\ formatting.address \notin DOMAIN RightmostAndRow
    /\ \E c \in DOMAIN sheet : callSheet[c] = StaleCell

(***************************************************************************)
(* The address arithmetic on its own: one acceptPreview for a selection in *)
(* any column named by up to MaxLetters letters.                           *)
(***************************************************************************)
MaxLetters == 2
ColumnStrings == UNION {[1..n -> Range(Upper)] : n \in 1..MaxLetters}
\* "Sheet1!x1:x2" for the column x, with one captured style per row.
ColumnFormattings ==
    {[address |-> Chars1 \o x \o <<"1", ":">> \o x \o <<"2">>,
      rowCount |-> 2, columnCount |-> 1,
      headerRowStyle |-> <<HeaderStyle>>, dataRowStyle |-> <<DataStyle>>] :
        x \in ColumnStrings}
    \cup Formattings

ColumnInit == InitOn({[c \in Cells |-> DefaultCell]}, MaxCalls - CallWeight("accept"))

ColumnNext ==
    \/ \E p \in Plans, f \in ColumnFormattings : acceptPreviewBegin(p, f)
    \/ acceptPreviewBorders
    \/ acceptPreviewParseFails
    \/ acceptPreviewClear
    \/ acceptPreviewRender
    \/ acceptPreviewUnloaded
    \/ acceptPreviewThrow

ColumnSpec == ColumnInit /\ [][ColumnNext]_vars

\* The column letters the address of the call starts with.
SelectedColumn ==
    LET bare == Unqualified(formatting.address)
    IN  SubSeq(bare, 1, RunEnd(bare, 1, FALSE))
Letters(str) == str # <<>> /\ \A i \in 1..Len(str) : IsUpper(str[i])

(***************************************************************************)
(* C29: colToNum and numToCol are inverse to each other: for the column    *)
(* letters x of the selection, numToCol(colToNum(x)) = x; for the column   *)
(* numbers n >= 1 the renderer derives from it, numToCol(n) is a non-empty *)
(* string of letters A..Z and colToNum(numToCol(n)) = n, so that every     *)
(* output cell lands in the column meant; A is 1, Z is 26 and AA is 27.    *)
(***************************************************************************)
C29_ColumnRoundTrip ==
    /\ colToNum(<<"A">>) = 1 /\ colToNum(<<"Z">>) = 26 /\ colToNum(<<"A", "A">>) = 27
    /\ numToCol(1) = <<"A">> /\ numToCol(26) = <<"Z">> /\ numToCol(27) = <<"A", "A">>
    /\ lastCall = "accept" /\ ParseInputAddress(formatting.address).ok =>
          LET x == SelectedColumn
              n == colToNum(x)
          IN  /\ n >= 1
              /\ numToCol(n) = x
              /\ OutCol = n + 2
              /\ \A j \in 0..5 :
                    /\ Letters(numToCol(n + j))
                    /\ colToNum(numToCol(n + j)) = n + j
              /\ Rendered =>
                    LET writes == RenderWrites(plan, formatting, OutCol, OutRow)
                    IN  \A i \in 1..Len(writes) :
                            WriteCell(writes[i], OutCol) = <<OutCol + writes[i].co, writes[i].row>>

\* A render for a selection in column ZZ, whose output starts in column AAB.
C29_RenderedForColumnZZ ==
    /\ Rendered
    /\ SelectedColumn = <<"Z", "Z">>
    /\ numToCol(OutCol) = <<"A", "A", "B">>

\* A plan with every slot and every calculated value, and the plans that
\* lack some of them.
CompletePlan == CHOOSE p \in Plans : TRUE
LacksSomething(p) ==
    \/ "slots" \notin DOMAIN p
    \/ "calculated_values" \notin DOMAIN p
    \/ \E f \in {"roundType", "amount", "preMoney", "poolPct"} : f \notin DOMAIN SlotsOf(p)
    \/ \E f \in {"post_money_valuation", "price_per_share", "final_share_counts",
                 "final_ownership_pct", "parsed_investors"} : f \notin DOMAIN CalcOf(p)
\* The cell in column j of the block and the given row holds v, or nothing
\* when v is missing.
Holds(j, row, v) ==
    sheet[<<OutCol + j, row>>].content = (IF v = Null THEN EmptyContent ELSE v)
\* The three value cells of a table row.
RowHolds(row, investment, shares, pct) ==
    Holds(1, row, investment) /\ Holds(2, row, shares) /\ Holds(3, row, pct)

(***************************************************************************)
(* C30: for a plan that lacks calculated_values, one of its fields or a    *)
(* slot, the renderer fails only where it could fail for a complete plan   *)
(* too; when it returns, the three blocks stand with the labels and rows   *)
(* of a complete rendering, every value cell whose input is present holds  *)
(* that input, and every value cell whose input is missing is empty.       *)
(***************************************************************************)
C30_MissingFieldsTolerated ==
    lastCall = "accept" /\ LacksSomething(plan) =>
        /\ Threw("accept") /\ fails = 0 /\ ParseInputAddress(formatting.address).ok =>
              ReadsUnloaded(RenderWrites(CompletePlan, formatting, OutCol, OutRow))
        /\ Rendered =>
              LET slots == SlotsOf(plan)
                  calc == CalcOf(plan)
                  shares == MapOf(calc, "final_share_counts")
                  pcts == MapOf(calc, "final_ownership_pct")
                  shown == SelectSeq(InvestorsOf(plan), IsShown)
                  k == Len(shown)
                  h == OutRow + 10
              IN  /\ C25_BlockLayout
                  /\ C18_TableRows
                  /\ Holds(1, OutRow + 1, Field(slots, "roundType"))
                  /\ Holds(1, OutRow + 2, InMillions(Field(slots, "amount")))
                  /\ Holds(1, OutRow + 3, InMillions(Field(slots, "preMoney")))
                  /\ Holds(1, OutRow + 4, Field(slots, "poolPct"))
                  /\ Holds(1, OutRow + 7, InMillions(Field(calc, "post_money_valuation")))
                  /\ Holds(1, OutRow + 8, Field(calc, "price_per_share"))
                  /\ \A i \in 1..k :
                        RowHolds(h + i, shown[i].investment, Field(shares, shown[i].name),
                                 Field(pcts, shown[i].name))
                  /\ RowHolds(h + k + 1, Field(slots, "amount"),
                              Field(shares, "New Investors"), Field(pcts, "New Investors"))
                  /\ RowHolds(h + k + 2, Null,
                              Field(shares, "Option Pool"), Field(pcts, "Option Pool"))

(***************************************************************************)
(* C37: after applyPreview directly followed by a successful               *)
(* rejectPreview, every cell of a touched range that held a formula before *)
(* the stage holds that same formula again, not the value it computed.     *)
(***************************************************************************)
C37_FormulaSurvivesReject ==
    StagedThenRejected =>
        \A c \in TouchedCells(OpRanges(ops)) :
            preSheet[c].content.k = "formula" => sheet[c].content = preSheet[c].content

(***************************************************************************)
(* C38: when an acceptPreview has thrown and a rejectPreview then          *)
(* succeeds, every cell is as it was before the stage; here for the cells  *)
(* no op targeted, which only the renderer's flushed clear can have        *)
(* changed.                                                                *)
(***************************************************************************)
C38_RejectUndoesFailedAccept ==
    /\ Succeeded("reject")
    /\ callRanges # <<>>
    /\ prev.call = "accept" /\ prev.result = "threw"
    => \A c \in Cells \ TouchedCells(Range(callRanges)) :
           [sheet[c] EXCEPT !.border = "none"] = [preSheet[c] EXCEPT !.border = "none"]

(***************************************************************************)
(* applyCellStyle on its own (SheetConnector.ts:476-503): a cell of the    *)
(* document and a style are drawn from bounded sets and the style is       *)
(* applied once, as restoreRangeFormatting (line 944) and the renderer     *)
(* (lines 606-836) apply it.                                               *)
(***************************************************************************)
\* Style-bearing cells: every combination of the flags and of set / default
\* string-valued properties.
StyledCells ==
    { [DefaultCell EXCEPT !.content = Str("Alice"), !.bold = b, !.wrapText = w,
                          !.fill = f, !.numberFormat = n] :
        b \in BOOLEAN, w \in BOOLEAN, f \in {"#FFFFFF", "#FFFF00"},
        n \in {"General", "0.0%"} }

StyleSheets ==
    { [c \in Cells |-> IF c = <<1, 1>> THEN x ELSE DefaultCell] : x \in StyledCells }

\* CellStyle arguments: captured styles (every field present), styles with a
\* single field present, a style with an empty fill and no style at all.
Styles ==
    {CaptureStyle(x) : x \in StyledCells}
        \cup {[numberFormat |-> n] : n \in {"0.0%", "#,##0"}}
        \cup {[bold |-> FALSE], [wrapText |-> FALSE], [fill |-> ""], NullStyle}

applyStyle(c, style) ==
    /\ StartCall("style")
    /\ sheet' = [sheet EXCEPT ![c] = applyCellStyle(sheet[c], style)]
    /\ formatting' = [cell |-> c, style |-> style]
    /\ Return
    /\ UNCHANGED <<session, idx, ops, plan, preSheet, fails>>

StyleInit == InitOn(StyleSheets, MaxCalls - 1)
StyleNext == \E c \in {<<1, 1>>, <<2, 2>>}, s \in Styles : applyStyle(c, s)
StyleSpec == StyleInit /\ [][StyleNext]_vars

\* The style of the last applyStyle, the cell it was applied to and the cell
\* as it was before.
StyleApplied == Succeeded("style")
GivenStyle == formatting.style
StyledCell == sheet[formatting.cell]
CellBefore == callSheet[formatting.cell]

(***************************************************************************)
(* C31: after applyStyle(cell, s) every property present in s has s's      *)
(* value on the cell, false and empty values included (the borders         *)
(* property, which is an object of the host, is left aside).               *)
(***************************************************************************)
C31_PresentFieldsWritten ==
    StyleApplied =>
        \A f \in DOMAIN GivenStyle \cap {"bold", "color", "fill", "numberFormat", "wrapText"} :
            StyledCell[f] = GivenStyle[f]

(***************************************************************************)
(* C32: applying a style in which only numberFormat is present changes     *)
(* only the number format of the cell: content, font, fill, wrap and       *)
(* border are as before.                                                   *)
(***************************************************************************)
C32_NumberFormatOnlyMerges ==
    StyleApplied /\ DOMAIN GivenStyle = {"numberFormat"} =>
        /\ StyledCell = [CellBefore EXCEPT !.numberFormat = GivenStyle.numberFormat]
        /\ \A c \in Cells \ {formatting.cell} : sheet[c] = callSheet[c]

\* A number-format-only style has been applied to a bold, filled, wrapped
\* cell that had another number format.
C32_AppliedToStyledCell ==
    /\ StyleApplied
    /\ DOMAIN GivenStyle = {"numberFormat"}
    /\ CellBefore.bold /\ CellBefore.wrapText /\ CellBefore.fill = "#FFFF00"
    /\ CellBefore.numberFormat # GivenStyle.numberFormat
    /\ StyledCell.numberFormat = GivenStyle.numberFormat

(***************************************************************************)
(* The task pane (src/unnamed/part_010).  Each handler is cut at its       *)
(* awaits; a call of checkPlanStatus occupies one of MaxInFlight slots     *)
(* from the timer callback to its last line, showPreview and applyPreview  *)
(* included.                                                               *)
(***************************************************************************)
callState == <<pc, phase, idx, ops, plan, formatting, lastCall, result, preSheet,
               callSheet, callData, callRanges, restored, prev, calls, fails>>

\* The ranges the user may have selected in the workbook.
Selections == {AddressA1A2, AddressA1}

\* getSelectedRangeFormatting (SheetConnector.ts:155-195): the formatting is
\* read from the range that is selected when the call is made.
getSelectedRangeFormatting(selected) == CHOOSE f \in Formattings : f.address = selected

\* statusResponse.result of a completed task.
BackendResult ==
    [ops |-> <<WriteOp("op1", Addr(1, 1, 1, 2), "x")>>,
     plan |-> CHOOSE p \in Plans : "calculated_values" \in DOMAIN p]

\* Lines 396-463: what the pane renders.
ChatShown == ~app.isReady /\ app.finalPlanData = NoData
TriggerShown == app.isReady /\ app.finalPlanData = NoData
PaneShown == app.finalPlanData # NoData
isPreviewPaneBusy ==
    app.isLoading \/ app.isApplyingPlan \/ app.isPreviewing \/ app.isRejectingPreview
\* part_004 line 20 and lines 46-59: Accept and Reject are clickable.
ButtonsEnabled == PaneShown /\ ~(isPreviewPaneBusy \/ app.isApplyingPlan)

StagePhases == {"begin", "capture", "write", "marker"}
Staging(p) == app.polls[p].phase \in StagePhases
FreeSlots == {p \in 1..MaxInFlight : app.polls[p].phase = "free"}
NewTasks == {t \in 1..MaxTasks : app.service[t] = "none"}
Least(S) == CHOOSE x \in S : \A y \in S : x <= y

\* The user selects another range in the workbook while the pane asks for
\* the data range (a selection made at another time is read by nobody
\* before the next one).
selectRange(a) ==
    /\ TriggerShown
    /\ a # app.selection
    /\ app' = [app EXCEPT !.selection = a]
    /\ UNCHANGED <<sheet, session, callState>>

\* handleSendMessage with response.ready, lines 346-351 and 53-71.
handleSlotsReady ==
    /\ ChatShown
    /\ app' = [app EXCEPT !.isLoading = FALSE, !.isReady = TRUE,
                          !.selectedRangeAddress = NoAddress, !.planTaskId = 0,
                          !.finalPlanData = NoData, !.pollingInterval = NoTimer]
    /\ UNCHANGED <<sheet, session, callState>>

\* handleGeneratePlan without a confirmed address, lines 170-173.
getSelectionBegin ==
    /\ TriggerShown /\ ~app.isLoading
    /\ app.selectedRangeAddress = NoAddress
    /\ app.generate = "idle"
    /\ app' = [app EXCEPT !.isLoading = TRUE, !.generate = "selecting"]
    /\ UNCHANGED <<sheet, session, callState>>

\* Lines 176-187: getSelectedRangeAddress returns the address of the range
\* selected now, or throws.
getSelectionEnd(ok) ==
    /\ app.generate = "selecting"
    /\ app' = [app EXCEPT !.selectedRangeAddress = IF ok THEN app.selection ELSE NoAddress,
                          !.isLoading = FALSE, !.generate = "idle"]
    /\ UNCHANGED <<sheet, session, callState>>

\* Line 432: Change Selection.
changeSelection ==
    /\ TriggerShown /\ ~app.isLoading
    /\ app.selectedRangeAddress # NoAddress
    /\ app' = [app EXCEPT !.selectedRangeAddress = NoAddress]
    /\ UNCHANGED <<sheet, session, callState>>

\* handleGeneratePlan with a confirmed address, lines 170 and 190-196.
generateBegin ==
    /\ TriggerShown /\ ~app.isLoading
    /\ app.selectedRangeAddress # NoAddress
    /\ app.generate = "idle"
    /\ NewTasks # {}
    /\ app' = [app EXCEPT !.isLoading = TRUE, !.finalPlanData = NoData,
                          !.capturedFormatting = NoFormatting,
                          !.currentAddress = app.selectedRangeAddress,
                          !.generate = "reading"]
    /\ UNCHANGED <<sheet, session, callState>>

\* Lines 203-218 up to chatService.ts line 80: the data of currentAddress is
\* read, then the formatting is captured.
generateCapture ==
    /\ app.generate = "reading"
    /\ app' = [app EXCEPT !.rangeFormatting = getSelectedRangeFormatting(app.selection),
                          !.generate = "posting"]
    /\ UNCHANGED <<sheet, session, callState>>

\* chatService.ts lines 88-113 and part_010 lines 220-241: the service
\* accepts the task, the timer is started.
generateStart ==
    /\ app.generate = "posting"
    /\ LET t == Least(NewTasks)
       IN  app' = [app EXCEPT !.capturedFormatting = app.rangeFormatting,
                              !.planTaskId = t, !.isLoading = TRUE,
                              !.pollingInterval = [task |-> t,
                                                   formatting |-> app.rangeFormatting],
                              !.service[t] = "processing",
                              !.generate = "idle"]
    /\ UNCHANGED <<sheet, session, callState>>

\* Lines 245-253: a read, the capture or the request failed.
generateFails ==
    /\ app.generate \in {"reading", "posting"}
    /\ app' = [app EXCEPT !.isLoading = FALSE, !.planTaskId = 0,
                          !.capturedFormatting = NoFormatting, !.generate = "idle"]
    /\ UNCHANGED <<sheet, session, callState>>

\* The plan service finishes a task.
serviceFinishes(t, status) ==
    /\ app.service[t] = "processing"
    /\ app' = [app EXCEPT !.service[t] = status]
    /\ UNCHANGED <<sheet, session, callState>>

\* Lines 239-241 and 111-123: the timer fires, checkPlanStatus sends its
\* request.
pollStart ==
    /\ app.pollingInterval # NoTimer
    /\ FreeSlots # {}
    /\ app' = [app EXCEPT !.polls[Least(FreeSlots)] =
                              [phase |-> "fetch", task |-> app.pollingInterval.task,
                               formatting |-> app.pollingInterval.formatting]]
    /\ UNCHANGED <<sheet, session, callState>>

\* Lines 144-146: the task is still processing.
pollProcessing(p) ==
    /\ app.polls[p].phase = "fetch"
    /\ app.service[app.polls[p].task] = "processing"
    /\ app' = [app EXCEPT !.polls[p] = FreePoll]
    /\ UNCHANGED <<sheet, session, callState>>

\* Lines 126-132 and 86-92: completed; the timer is cleared and showPreview
\* calls applyPreview.
pollCompleted(p) ==
    /\ app.polls[p].phase = "fetch"
    /\ LET t == app.polls[p].task
       IN  /\ app.service[t] = "completed"
           /\ app' = [app EXCEPT !.pollingInterval = NoTimer, !.isPreviewing = TRUE,
                                 !.polls[p].phase = "begin",
                                 !.terminal[t] = TRUE,
                                 !.staged[t] = IF @ < 2 THEN @ + 1 ELSE @]
    /\ UNCHANGED <<sheet, session, callState>>

\* Lines 134-143 and 147-157: failed, or the request threw.
pollFailed(p, threw) ==
    /\ app.polls[p].phase = "fetch"
    /\ LET t == app.polls[p].task
       IN  /\ threw \/ app.service[t] = "failed"
           /\ app' = [app EXCEPT !.pollingInterval = NoTimer, !.isLoading = FALSE,
                                 !.planTaskId = 0, !.capturedFormatting = NoFormatting,
                                 !.finalPlanData = NoData,
                                 !.terminal[t] = TRUE,
                                 !.polls[p] = FreePoll]
    /\ UNCHANGED <<sheet, session, callState>>

\* applyPreview called by showPreview for the call in slot p: Excel.run
\* starts, SheetConnector.ts lines 962-963.
stageBegin(p) ==
    /\ app.polls[p].phase = "begin"
    /\ originalCellData' = applyPreviewReset[1]
    /\ previewAppliedRanges' = applyPreviewReset[2]
    /\ app' = [app EXCEPT !.polls[p].phase = "capture"]
    /\ UNCHANGED <<sheet, callState>>

\* SheetConnector.ts lines 972-983 for the op of the result.
stageCapture(p) ==
    /\ app.polls[p].phase = "capture"
    /\ LET a == BackendResult.ops[1].range
       IN  /\ originalCellData' = RecordSnapshot(originalCellData, sheet, a)
           /\ previewAppliedRanges' = RecordRange(previewAppliedRanges, a)
    /\ app' = [app EXCEPT !.polls[p].phase = "write"]
    /\ UNCHANGED <<sheet, callState>>

\* SheetConnector.ts line 1002.
stageWrite(p) ==
    /\ app.polls[p].phase = "write"
    /\ sheet' = ApplyOpWrite(sheet, BackendResult.ops[1])
    /\ app' = [app EXCEPT !.polls[p].phase = "marker"]
    /\ UNCHANGED <<session, callState>>

\* SheetConnector.ts lines 1003-1010, then part_010 lines 93-97, 105-108 and
\* 133: the draft is on the sheet and the pane gets its data.
stageEnd(p) ==
    /\ app.polls[p].phase = "marker"
    /\ sheet' = SetBorder(sheet, BackendResult.ops[1].range, "dash")
    /\ app' = [app EXCEPT !.finalPlanData = [backendResult |-> BackendResult,
                                             formatting |-> app.polls[p].formatting],
                          !.isPreviewing = FALSE, !.isLoading = FALSE,
                          !.planTaskId = 0, !.resolved = FALSE,
                          !.polls[p] = FreePoll]
    /\ UNCHANGED <<session, callState>>

\* showPreview without its finally block: a failed stage leaves the flags
\* as they are.
stageThrowsKeepsLoading(p) ==
    /\ app.polls[p].phase \in {"capture", "write", "marker"}
    /\ app' = [app EXCEPT !.finalPlanData = NoData, !.planTaskId = 0,
                          !.polls[p] = FreePoll]
    /\ UNCHANGED <<sheet, session, callState>>

\* A sync of applyPreview is rejected: SheetConnector.ts lines 1014-1021,
\* part_010 lines 99-108 and 133.
stageThrows(p) ==
    /\ app.polls[p].phase \in {"capture", "write", "marker"}
    /\ app' = [app EXCEPT !.finalPlanData = NoData,
                          !.isPreviewing = FALSE, !.isLoading = FALSE,
                          !.planTaskId = 0,
                          !.polls[p] = FreePoll]
    /\ UNCHANGED <<sheet, session, callState>>

\* handleAcceptPreview, lines 256-266.
acceptBegin ==
    /\ ButtonsEnabled
    /\ app' = [app EXCEPT !.isApplyingPlan = TRUE, !.accept = app.finalPlanData]
    /\ UNCHANGED <<sheet, session, callState>>

RECURSIVE ClearBorders(_, _, _)
ClearBorders(sh, ranges, i) ==
    IF i > Len(ranges) THEN sh
    ELSE ClearBorders(SetBorder(sh, ranges[i], "none"), ranges, i + 1)

\* acceptPreview returns (SheetConnector.ts lines 1031-1053), then lines
\* 271-283 and 289.
acceptEnd ==
    /\ app.accept # NoData
    /\ LET fmt == app.accept.formatting
           p == app.accept.backendResult.plan
           at == ParseInputAddress(fmt.address)
       IN  /\ at.ok
           /\ sheet' = RenderOutput(
                           ClearRegion(ClearBorders(sheet, previewAppliedRanges, 1),
                                       ClearRect(p, at.outputStartColNum, at.outputStartRow)),
                           p, fmt)
    /\ originalCellData' = AfterAccept[1]
    /\ previewAppliedRanges' = AfterAccept[2]
    /\ app' = [app EXCEPT !.successTimeout = TRUE, !.resolved = TRUE,
                          !.isApplyingPlan = FALSE, !.accept = NoData]
    /\ UNCHANGED callState

\* acceptPreview throws: lines 285-289.
acceptFails ==
    /\ app.accept # NoData
    /\ app' = [app EXCEPT !.isApplyingPlan = FALSE, !.accept = NoData]
    /\ UNCHANGED <<sheet, session, callState>>

\* Lines 274-283: the timeout set after a successful accept fires.
successTimeoutFires ==
    /\ app.successTimeout
    /\ app' = [app EXCEPT !.successTimeout = FALSE, !.finalPlanData = NoData,
                          !.capturedFormatting = NoFormatting, !.isReady = FALSE,
                          !.selectedRangeAddress = NoAddress]
    /\ UNCHANGED <<sheet, session, callState>>

\* handleRejectPreview, lines 293-299.
rejectBegin ==
    /\ ButtonsEnabled
    /\ app' = [app EXCEPT !.isRejectingPreview = TRUE]
    /\ UNCHANGED <<sheet, session, callState>>

RECURSIVE RestoreAll(_, _, _, _)
RestoreAll(sh, data, ranges, i) ==
    IF i > Len(ranges) THEN sh
    ELSE RestoreAll(RestoreRange(sh, ranges[i], data[ranges[i]]), data, ranges, i + 1)

\* rejectPreview returns (SheetConnector.ts lines 1063-1097), then lines
\* 300-309 and 318.
rejectEnd ==
    /\ app.isRejectingPreview
    /\ sheet' = RestoreAll(sheet, originalCellData, previewAppliedRanges, 1)
    /\ originalCellData' = AfterReject[1]
    /\ previewAppliedRanges' = AfterReject[2]
    /\ app' = [app EXCEPT !.finalPlanData = NoData, !.capturedFormatting = NoFormatting,
                          !.selectedRangeAddress = NoAddress, !.isReady = TRUE,
                          !.isRejectingPreview = FALSE]
    /\ UNCHANGED callState

\* rejectPreview throws (SheetConnector.ts lines 1099-1107), then lines
\* 311-318.
rejectFails ==
    /\ app.isRejectingPreview
    /\ previewAppliedRanges # <<>>
    /\ app' = [app EXCEPT !.finalPlanData = NoData, !.isRejectingPreview = FALSE]
    /\ UNCHANGED <<sheet, session, callState>>

AppInit == InitOn({sh \in UserSheets : sh[<<1, 2>>].border = "none"}, 0)

AppNext ==
    \/ \E a \in Selections : selectRange(a)
    \/ handleSlotsReady
    \/ getSelectionBegin
    \/ \E ok \in BOOLEAN : getSelectionEnd(ok)
    \/ changeSelection
    \/ generateBegin
    \/ generateCapture
    \/ generateStart
    \/ generateFails
    \/ \E t \in 1..MaxTasks, s \in {"completed", "failed"} : serviceFinishes(t, s)
    \/ pollStart
    \/ \E p \in 1..MaxInFlight : pollProcessing(p)
    \/ \E p \in 1..MaxInFlight : pollCompleted(p)
    \/ \E p \in 1..MaxInFlight, threw \in BOOLEAN : pollFailed(p, threw)
    \/ \E p \in 1..MaxInFlight : stageBegin(p)
    \/ \E p \in 1..MaxInFlight : stageCapture(p)
    \/ \E p \in 1..MaxInFlight : stageWrite(p)
    \/ \E p \in 1..MaxInFlight : stageEnd(p)
    \/ \E p \in 1..MaxInFlight : stageThrows(p)
    \/ acceptBegin
    \/ acceptEnd
    \/ acceptFails
    \/ successTimeoutFires
    \/ rejectBegin
    \/ rejectEnd
    \/ rejectFails

AppSpec == AppInit /\ [][AppNext]_vars

\* Calls of applyPreview in flight, and the calls of the connector at rest.
StagesInFlight == {p \in 1..MaxInFlight : Staging(p)}
NoCallInFlight ==
    StagesInFlight = {} /\ ~app.isApplyingPlan /\ ~app.isRejectingPreview

\* Every sync the host owes a call of applyPreview is eventually answered or
\* rejected; nothing is assumed of the user, the timer or the service.
StageStep(p) ==
    stageBegin(p) \/ stageCapture(p) \/ stageWrite(p) \/ stageEnd(p) \/ stageThrows(p)
LiveSpec == AppSpec /\ \A p \in 1..MaxInFlight : WF_vars(StageStep(p))

(***************************************************************************)
(* C33: for one plan task showPreview is started at most once, no two      *)
(* calls of applyPreview are in flight together, and no snapshot held was  *)
(* captured from a range that already carried the dashed draft border.     *)
(***************************************************************************)
C33_StagedOnce ==
    /\ \A t \in 1..MaxTasks : app.staged[t] <= 1
    /\ Cardinality(StagesInFlight) <= 1
    /\ \A a \in DOMAIN originalCellData : \A c \in CellsOf(a) :
           originalCellData[a].formatting[c].borders # "dash"

(***************************************************************************)
(* C34: whenever the connector holds snapshots and no stage, accept or     *)
(* reject is in flight, the preview pane is shown and its Reject button is *)
(* enabled.                                                                *)
(***************************************************************************)
C34_RejectAvailable ==
    previewAppliedRanges # <<>> /\ NoCallInFlight => ButtonsEnabled

(***************************************************************************)
(* C35: once acceptPreview has succeeded for the preview shown, neither    *)
(* handleAcceptPreview nor handleRejectPreview runs for it again.          *)
(***************************************************************************)
C35_ResolvedOnce ==
    app.resolved => ~app.isApplyingPlan /\ ~app.isRejectingPreview

(***************************************************************************)
(* C36: the formatting captured for a plan, and the one the pane holds for *)
(* the accept, carry the address that was confirmed when the plan was      *)
(* requested.                                                              *)
(***************************************************************************)
C36_FormattingOfConfirmedRange ==
    /\ app.capturedFormatting # NoFormatting =>
           app.capturedFormatting.address = app.currentAddress
    /\ PaneShown => app.finalPlanData.formatting.address = app.currentAddress

(***************************************************************************)
(* C39: once a poll of a task has returned completed or failed, or has     *)
(* thrown, the timer of that task is not running and no poll is started    *)
(* for the task; a poll that fails or throws leaves the pane not loading,  *)
(* and a stage started by a completed poll leads to the pane not loading,  *)
(* whether the stage succeeds or throws.                                   *)
(***************************************************************************)
C39_PollingStopsAndLoadingEnds ==
    /\ [](\A t \in 1..MaxTasks : app.terminal[t] => app.pollingInterval.task # t)
    /\ [][pollStart => ~app.terminal[app.pollingInterval.task]]_vars
    /\ [][(\E p \in 1..MaxInFlight, threw \in BOOLEAN : pollFailed(p, threw))
              => ~app'.isLoading]_vars
    /\ (StagesInFlight # {}) ~> ~app.isLoading

\* A completed poll started a stage that threw after its snapshot was taken:
\* the timer is cleared and the pane is not loading.
C39_LoadingLeftAfterFailedStage ==
    /\ \E t \in 1..MaxTasks : app.terminal[t] /\ app.staged[t] > 0
    /\ StagesInFlight = {}
    /\ previewAppliedRanges # <<>>
    /\ app.finalPlanData = NoData
    /\ app.pollingInterval = NoTimer
    /\ ~app.isLoading

====
